---- MODULE Spec2Model ----
(***************************************************************************)
(* The in-memory recipe knowledge base (MealDatabase) and the query, filter *)
(* and aggregation operations of MealPlanningTools.                         *)
(*                                                                          *)
(* Conventions of the translation                                           *)
(*  - a Python dict is a sequence of <<key, value>> pairs with distinct     *)
(*    keys, in insertion order (dict iteration order is insertion order);   *)
(*  - a positional score table (dict filled by enumerate) is the sequence   *)
(*    of its values: key k is position k + 1;                               *)
(*  - an optional argument is <<>> when it is None or absent and <<v>>      *)
(*    when it is given;                                                     *)
(*  - scores are integers (the dataset's floats scaled to whole numbers);   *)
(*  - every course entry of a result carries the course_index it was built  *)
(*    from, next to the payload fields of the code.                         *)
(***************************************************************************)
EXTENDS Integers, Sequences, FiniteSets, TLC

VARIABLES
    course_categories,        \* dict course_idx -> category
    course_fsa_scores,        \* positional table of fsa scores
    course_who_scores,        \* positional table of who scores
    meal_course_mapping,      \* dict meal_idx -> list of course_idx
    course_to_index,          \* dict course_id -> course_idx
    user_course_interactions, \* list of (user_idx, course_idx)
    user_meal_interactions,   \* dict split -> list of (user_idx, meal_idx)
    recipes_db,               \* dict course_idx -> MealRecipe
    pc,                       \* position of the constructor, "ready" after it
    files,                    \* the dataset files the constructor reads
    call,                     \* the operation invoked last and its arguments
    result,                   \* what that operation returned
    bot,                      \* the chatbot constructed, "none" before
    conversation_history,     \* the chatbot's list of messages
    requests                  \* the chat-completion requests of the last turn

vars == <<course_categories, course_fsa_scores, course_who_scores,
          meal_course_mapping, course_to_index, user_course_interactions,
          user_meal_interactions, recipes_db, pc, files, call, result,
          bot, conversation_history, requests>>

tables == <<course_categories, course_fsa_scores, course_who_scores,
            meal_course_mapping, course_to_index, user_course_interactions,
            user_meal_interactions, recipes_db>>

chatbot == <<bot, conversation_history, requests>>

----------------------------------------------------------------------------
(* Bounds of the model *)

MaxCourses == 2
MaxOthers == 2
MaxLimit == 1
MaxLines == 2
MaxTurns == 2
MaxCalls == 2

(* Program constants *)

DefaultFsa == 8
DefaultWho == 7
DefaultLimit == 10

----------------------------------------------------------------------------
(* Python values *)

None == <<>>
Some(v) == <<v>>
IsNone(x) == x = <<>>
Val(x) == x[1]

Range(s) == {s[i] : i \in DOMAIN s}

(* dict helpers *)
Keys(d) == {d[i][1] : i \in DOMAIN d}
HasKey(d, k) == \E i \in DOMAIN d : d[i][1] = k
Lookup(d, k) == d[CHOOSE i \in DOMAIN d : d[i][1] = k][2]
PutKey(d, k, v) ==
    IF HasKey(d, k)
    THEN [i \in DOMAIN d |-> IF d[i][1] = k THEN <<k, v>> ELSE d[i]]
    ELSE Append(d, <<k, v>>)

(* s[:k] for k >= 0 *)
Take(s, k) == IF k >= Len(s) THEN s ELSE SubSeq(s, 1, k)

(* [x for x in s if Keep(x)] *)
RECURSIVE SelectFrom(_, _)
SelectFrom(s, keep) ==
    IF s = <<>> THEN <<>>
    ELSE IF keep[1] THEN <<s[1]>> \o SelectFrom(Tail(s), Tail(keep))
         ELSE SelectFrom(Tail(s), Tail(keep))

(* list.sort(key=...): ascending by key, equal keys keep their order *)
StableSort(s, key) ==
    LET n == Len(s)
        pos(i) == Cardinality({j \in 1..n :
                     key[j] < key[i] \/ (key[j] = key[i] /\ j < i)}) + 1
    IN  [p \in 1..n |-> s[CHOOSE i \in 1..n : pos(i) = p]]

(* list.sort(key=..., reverse=True): descending, equal keys keep their order *)
StableSortReverse(s, key) ==
    LET n == Len(s)
        pos(i) == Cardinality({j \in 1..n :
                     key[j] > key[i] \/ (key[j] = key[i] /\ j < i)}) + 1
    IN  [p \in 1..n |-> s[CHOOSE i \in 1..n : pos(i) = p]]

(* the mutation: the list is cut to the limit before it is sorted *)
LimitThenSort(s, key, limit) ==
    StableSort(Take(s, limit), Take(key, limit))

(* xs.sort(key=...) followed by xs[:limit] *)
SortThenLimit(s, key, limit) == Take(StableSort(s, key), limit)

----------------------------------------------------------------------------
(* Dataset files.  A file is [exists, lines]; open() of a file that does   *)
(* not exist raises.  A line of a two-column file is                        *)
(*   <<"pair", a, b>>  two or more tab-separated fields, the first two ints *)
(*   <<"short">>       fewer than two fields: skipped by the loaders        *)
(*   <<"bad">>         two or more fields, one of the first two not an int  *)
(* and a line of a score file is <<"num", v>> or <<"bad">> (float() raises).*)

MissingFile == [exists |-> FALSE, lines |-> <<>>]
File(lines) == [exists |-> TRUE, lines |-> lines]
Unparseable(f) == \E i \in DOMAIN f.lines : f.lines[i] = <<"bad">>

RECURSIVE CategoriesLoop(_, _)
CategoriesLoop(lines, categories) ==
    IF lines = <<>> THEN categories
    ELSE LET line == Head(lines) IN
         IF line[1] = "short" THEN CategoriesLoop(Tail(lines), categories)
         ELSE IF line[1] = "bad" THEN categories
         ELSE CategoriesLoop(Tail(lines), PutKey(categories, line[2], line[3]))

_load_course_categories(f) ==
    IF ~f.exists THEN <<>> ELSE CategoriesLoop(f.lines, <<>>)

RECURSIVE ScoresLoop(_, _)
ScoresLoop(lines, scores) ==
    IF lines = <<>> THEN scores
    ELSE LET line == Head(lines) IN
         IF line[1] = "bad" THEN scores
         ELSE ScoresLoop(Tail(lines), Append(scores, line[2]))

_load_health_scores(f) ==
    IF ~f.exists THEN <<>> ELSE ScoresLoop(f.lines, <<>>)

RECURSIVE MealCourseLoop(_, _)
MealCourseLoop(lines, mapping) ==
    IF lines = <<>> THEN mapping
    ELSE LET line == Head(lines) IN
         IF line[1] = "short" THEN MealCourseLoop(Tail(lines), mapping)
         ELSE IF line[1] = "bad" THEN mapping
         ELSE LET m == IF HasKey(mapping, line[2]) THEN mapping
                       ELSE Append(mapping, <<line[2], <<>> >>)
              IN  MealCourseLoop(Tail(lines),
                      PutKey(m, line[2], Append(Lookup(m, line[2]), line[3])))

_load_meal_course_mapping(f) ==
    IF ~f.exists THEN <<>> ELSE MealCourseLoop(f.lines, <<>>)

RECURSIVE CourseToIndexLoop(_, _)
CourseToIndexLoop(lines, mapping) ==
    IF lines = <<>> THEN mapping
    ELSE LET line == Head(lines) IN
         IF line[1] = "short" THEN CourseToIndexLoop(Tail(lines), mapping)
         ELSE IF line[1] = "bad" THEN mapping
         ELSE CourseToIndexLoop(Tail(lines), PutKey(mapping, line[2], line[3]))

_load_course_to_index(f) ==
    IF ~f.exists THEN <<>> ELSE CourseToIndexLoop(f.lines, <<>>)

RECURSIVE InteractionsLoop(_, _)
InteractionsLoop(lines, interactions) ==
    IF lines = <<>> THEN interactions
    ELSE LET line == Head(lines) IN
         IF line[1] = "short" THEN InteractionsLoop(Tail(lines), interactions)
         ELSE IF line[1] = "bad" THEN interactions
         ELSE InteractionsLoop(Tail(lines),
                               Append(interactions, <<line[2], line[3]>>))

_load_user_course_interactions(f) ==
    IF ~f.exists THEN <<>> ELSE InteractionsLoop(f.lines, <<>>)

Splits == <<"train", "test", "tune">>

(* fs: the three split files, in the order of Splits *)
_load_user_meal_interactions(fs) ==
    [i \in 1..3 |-> <<Splits[i],
        IF ~fs[i].exists THEN <<>> ELSE InteractionsLoop(fs[i].lines, <<>>)>>]

----------------------------------------------------------------------------
(* Recipe index *)

(* a variant of ScoreGet that takes 0 for a course without a score *)
ScoreGet_zero(scores, idx, default) ==
    IF idx + 1 \in DOMAIN scores THEN scores[idx + 1] ELSE 0

ScoreGet(scores, idx, default) ==
    IF idx + 1 \in DOMAIN scores THEN scores[idx + 1] ELSE default

(* the first key of the dict whose value is idx, None when there is none *)
FirstKeyOf(d, idx) ==
    IF \E i \in DOMAIN d : d[i][2] = idx
    THEN Some(d[CHOOSE i \in DOMAIN d :
                   /\ d[i][2] = idx
                   /\ \A j \in DOMAIN d : d[j][2] = idx => i <= j][1])
    ELSE None

MealRecipe(idx, name, cat, fsa, who, meals) ==
    [course_index |-> idx, course_name |-> name, category |-> cat,
     fsa_health_score |-> fsa, who_health_score |-> who,
     meal_affiliations |-> meals]

(* a variant of _build_real_recipe_database that affiliates every course    *)
(* with every meal                                                          *)
_build_real_recipe_database_all_meals(categories, fsa, who, meals, c2i) ==
    [p \in DOMAIN categories |->
        LET course_idx == categories[p][1]
            course_id == FirstKeyOf(c2i, course_idx)
        IN  <<course_idx,
              MealRecipe(course_idx,
                         IF ~IsNone(course_id) /\ Val(course_id) # 0
                         THEN <<"Course", Val(course_id)>>
                         ELSE <<"Course", course_idx>>,
                         categories[p][2],
                         ScoreGet(fsa, course_idx, DefaultFsa),
                         ScoreGet(who, course_idx, DefaultWho),
                         [m \in DOMAIN meals |-> meals[m][1]])>>]

_build_real_recipe_database(categories, fsa, who, meals, c2i) ==
    [p \in DOMAIN categories |->
        LET course_idx == categories[p][1]
            category == categories[p][2]
            course_id == FirstKeyOf(c2i, course_idx)
            course_name ==
                IF ~IsNone(course_id) /\ Val(course_id) # 0
                THEN <<"Course", Val(course_id)>>
                ELSE <<"Course", course_idx>>
            meal_affiliations ==
                LET keep == [m \in DOMAIN meals |->
                               course_idx \in Range(meals[m][2])]
                    hit == SelectFrom(meals, keep)
                IN  [m \in DOMAIN hit |-> hit[m][1]]
        IN  <<course_idx,
              MealRecipe(course_idx, course_name, category,
                         ScoreGet(fsa, course_idx, DefaultFsa),
                         ScoreGet(who, course_idx, DefaultWho),
                         meal_affiliations)>>]

----------------------------------------------------------------------------
(* MealPlanningTools: helpers *)

category_map == [appetizer |-> 0, main |-> 1, dessert |-> 2]

(* the mutation: an unknown name is looked up as the first category *)
CategoryMapGetLenient(category) ==
    IF category \in DOMAIN category_map THEN Some(category_map[category])
    ELSE Some(0)

(* category_map.get(category) *)
CategoryMapGet(category) ==
    IF category \in DOMAIN category_map THEN Some(category_map[category])
    ELSE None

CategoryName(c) == <<"appetizer", "main", "dessert">>[c + 1]

(* truthiness of an optional string argument: None and "" are false *)
Truthy(x) == ~IsNone(x) /\ Val(x) # ""

(* a variant of _get_real_course_id that always falls back to the index *)
_get_real_course_id_fallback(course_idx) == course_idx

_get_real_course_id(course_idx) ==
    LET real_id == FirstKeyOf(course_to_index, course_idx)
    IN  IF IsNone(real_id) THEN course_idx ELSE Val(real_id)

Recipe(p) == recipes_db[p][2]
CourseIdxAt(p) == recipes_db[p][1]
InRecipes(idx) == HasKey(recipes_db, idx)
RecipeOf(idx) == Lookup(recipes_db, idx)

----------------------------------------------------------------------------
(* Query / filter engine *)

(* the mutation: the bounds are exclusive *)
filter_courses_keep_exclusive(recipe, category_filter, max_fsa_score, max_who_score) ==
    /\ ~(~IsNone(category_filter) /\ recipe.category # Val(category_filter))
    /\ ~(~IsNone(max_fsa_score)
          /\ recipe.fsa_health_score >= Val(max_fsa_score))
    /\ ~(~IsNone(max_who_score)
          /\ recipe.who_health_score >= Val(max_who_score))

(* the three "continue" tests of the filter loop *)
filter_courses_keep(recipe, category_filter, max_fsa_score, max_who_score) ==
    /\ ~(~IsNone(category_filter) /\ recipe.category # Val(category_filter))
    /\ ~(~IsNone(max_fsa_score)
          /\ recipe.fsa_health_score > Val(max_fsa_score))
    /\ ~(~IsNone(max_who_score)
          /\ recipe.who_health_score > Val(max_who_score))

filter_courses(criteria) ==
    LET category == criteria.category
        max_fsa_score == criteria.max_fsa_score
        max_who_score == criteria.max_who_score
        limit == IF IsNone(criteria.limit) THEN DefaultLimit
                 ELSE Val(criteria.limit)
        category_filter ==
            IF Truthy(category) THEN CategoryMapGet(Val(category)) ELSE None
        keep == [p \in DOMAIN recipes_db |->
                   filter_courses_keep(Recipe(p), category_filter,
                                       max_fsa_score, max_who_score)]
        entries == [p \in DOMAIN recipes_db |->
                      [course_index |-> CourseIdxAt(p),
                       course_id |-> _get_real_course_id(CourseIdxAt(p)),
                       course_name |-> Recipe(p).course_name,
                       category |-> CategoryName(Recipe(p).category),
                       fsa_score |-> Recipe(p).fsa_health_score,
                       who_score |-> Recipe(p).who_health_score,
                       meal_count |-> Len(Recipe(p).meal_affiliations)]]
        matching_courses == SelectFrom(entries, keep)
        key == [i \in DOMAIN matching_courses |->
                  matching_courses[i].fsa_score + matching_courses[i].who_score]
    IN  [courses |-> SortThenLimit(matching_courses, key, limit),
         total_found |-> Len(matching_courses),
         criteria_applied |-> criteria]

search_courses_by_category(category, limit) ==
    LET category_idx == CategoryMapGet(category)
        keep == [p \in DOMAIN recipes_db |->
                   Recipe(p).category = Val(category_idx)]
        entries == [p \in DOMAIN recipes_db |->
                      [course_index |-> CourseIdxAt(p),
                       course_id |-> _get_real_course_id(CourseIdxAt(p)),
                       course_name |-> Recipe(p).course_name,
                       fsa_score |-> Recipe(p).fsa_health_score,
                       who_score |-> Recipe(p).who_health_score,
                       meal_count |-> Len(Recipe(p).meal_affiliations)]]
        courses == SelectFrom(entries, keep)
        key == [i \in DOMAIN courses |->
                  courses[i].fsa_score + courses[i].who_score]
    IN  IF IsNone(category_idx)
        THEN [error |-> <<"Invalid category", category>>]
        ELSE [category |-> category,
              courses |-> SortThenLimit(courses, key, limit),
              total_available |-> Len(courses),
              showing |-> IF limit < Len(courses) THEN limit ELSE Len(courses)]

find_healthy_courses(max_fsa_score, category, limit) ==
    LET category_filter ==
            IF Truthy(category) THEN CategoryMapGet(Val(category)) ELSE None
        keep == [p \in DOMAIN recipes_db |->
                   /\ Recipe(p).fsa_health_score <= max_fsa_score
                   /\ (IsNone(category_filter)
                        \/ Recipe(p).category = Val(category_filter))]
        entries == [p \in DOMAIN recipes_db |->
                      [course_index |-> CourseIdxAt(p),
                       course_id |-> _get_real_course_id(CourseIdxAt(p)),
                       course_name |-> Recipe(p).course_name,
                       category |-> CategoryName(Recipe(p).category),
                       fsa_score |-> Recipe(p).fsa_health_score,
                       who_score |-> Recipe(p).who_health_score,
                       combined_score |-> Recipe(p).fsa_health_score
                                            + Recipe(p).who_health_score]]
        healthy_courses == SelectFrom(entries, keep)
        key == [i \in DOMAIN healthy_courses |->
                  healthy_courses[i].combined_score]
    IN  [criteria |-> [max_fsa_score |-> max_fsa_score, category |-> category],
         courses |-> SortThenLimit(healthy_courses, key, limit),
         total_found |-> Len(healthy_courses),
         showing |-> IF limit < Len(healthy_courses) THEN limit
                     ELSE Len(healthy_courses)]

(* MealDatabase.retrieve_recipes: category is an optional category index *)
retrieve_recipes(category, max_fsa_score, limit) ==
    LET keep == [p \in DOMAIN recipes_db |->
                   /\ ~(~IsNone(category) /\ Recipe(p).category # Val(category))
                   /\ ~(~IsNone(max_fsa_score)
                         /\ Recipe(p).fsa_health_score > Val(max_fsa_score))]
        all == [p \in DOMAIN recipes_db |-> Recipe(p)]
        matching_recipes == SelectFrom(all, keep)
        key == [i \in DOMAIN matching_recipes |->
                  matching_recipes[i].fsa_health_score
                    + matching_recipes[i].who_health_score]
    IN  [recipes |-> SortThenLimit(matching_recipes, key, limit),
         total_found |-> Len(matching_recipes)]

----------------------------------------------------------------------------
(* Aggregation and recommendation operations *)

(* ToolUtils.convert_course_id_to_index, inlined in MealPlanningTools *)
convert_course_id_to_index(course_id) ==
    IF HasKey(course_to_index, course_id)
    THEN Lookup(course_to_index, course_id)
    ELSE course_id

(* the test that admits a course to the list of alternatives *)
swap_is_alternative(other_id, recipe, course_idx, target_category, original_score, improvement_threshold) ==
    /\ recipe.category = target_category
    /\ other_id # course_idx
    /\ recipe.fsa_health_score < (original_score - improvement_threshold)

(* the mutation: the first alternative found is taken *)
swap_first(alternatives) == alternatives[1]

(* alternatives.sort(key=improvement, reverse=True); alternatives[0] *)
swap_best(alternatives) ==
    StableSortReverse(alternatives,
        [i \in DOMAIN alternatives |-> alternatives[i][3]])[1]

(* the mutation: the original course is counted too *)
swap_alternatives_checked_all(target_category) ==
    Cardinality({p \in DOMAIN recipes_db :
                    Recipe(p).category = target_category})

swap_alternatives_checked(target_category) ==
    Cardinality({p \in DOMAIN recipes_db :
                    Recipe(p).category = target_category}) - 1

swap_for_healthier(course_id, improvement_threshold) ==
    LET course_idx == convert_course_id_to_index(course_id)
        original_recipe == RecipeOf(course_idx)
        original_score == original_recipe.fsa_health_score
        target_category == original_recipe.category
        keep == [p \in DOMAIN recipes_db |->
                   swap_is_alternative(CourseIdxAt(p), Recipe(p), course_idx,
                       target_category, original_score, improvement_threshold)]
        triples == [p \in DOMAIN recipes_db |->
                      <<CourseIdxAt(p), Recipe(p),
                        original_score - Recipe(p).fsa_health_score>>]
        alternatives == SelectFrom(triples, keep)
        best == swap_best(alternatives)
    IN  IF ~InRecipes(course_idx)
        THEN [error |-> <<"Course not found", course_id>>]
        ELSE IF alternatives = <<>>
        THEN [original_course |->
                 [course_id |-> _get_real_course_id(course_id),
                  course_name |-> original_recipe.course_name,
                  fsa_score |-> original_score],
              message |-> <<"No healthier alternatives found with improvement >=",
                            improvement_threshold>>,
              alternatives_checked |-> swap_alternatives_checked(target_category)]
        ELSE [original_course |->
                 [course_id |-> _get_real_course_id(course_idx),
                  course_name |-> original_recipe.course_name,
                  fsa_score |-> original_score,
                  who_score |-> original_recipe.who_health_score],
              healthier_alternative |->
                 [course_index |-> best[1],
                  course_id |-> _get_real_course_id(best[1]),
                  course_name |-> best[2].course_name,
                  fsa_score |-> best[2].fsa_health_score,
                  who_score |-> best[2].who_health_score],
              improvement |->
                 [fsa_improvement |-> best[3],
                  who_improvement |-> original_recipe.who_health_score
                                        - best[2].who_health_score],
              category |-> CategoryName(target_category),
              total_alternatives |-> Len(alternatives)]

(* Numbers computed by the operations are exact fractions [n, d] (d > 0);  *)
(* a score of the tables is the fraction [n |-> score, d |-> 1].            *)
Frac(n, d) == [n |-> n, d |-> d]
FracLeq(x, k) == x.n <= k * x.d

(* round(x, 2): the nearest multiple of 1/100, ties to the even one *)
Round2(x) ==
    LET h == (x.n * 100) \div x.d
        r == (x.n * 100) % x.d
    IN  Frac(IF 2 * r > x.d \/ (2 * r = x.d /\ h % 2 = 1) THEN h + 1 ELSE h,
             100)

RECURSIVE SumSeq(_)
SumSeq(s) == IF s = <<>> THEN 0 ELSE Head(s) + SumSeq(Tail(s))

(* sum(xs) / len(xs) for fractions of one denominator *)
MeanOf(xs) ==
    Frac(SumSeq([i \in DOMAIN xs |-> xs[i].n]), xs[1].d * Len(xs))

_get_health_rating(score) ==
    IF FracLeq(score, 4) THEN "excellent"
    ELSE IF FracLeq(score, 6) THEN "very good"
    ELSE IF FracLeq(score, 8) THEN "good"
    ELSE IF FracLeq(score, 10) THEN "fair"
    ELSE "poor"

(* a Python function that falls off its end returns None *)
ReturnsNone == [none |-> TRUE]

ScoreTypes == {"fsa", "who", "combined"}

(* a variant of ScoreOfType that takes the fsa score for every score type *)
ScoreOfType_fsa(recipe, score_type) == Frac(recipe.fsa_health_score, 1)

(* the score of one recipe for a valid score_type *)
ScoreOfType(recipe, score_type) ==
    CASE score_type = "fsa" -> Frac(recipe.fsa_health_score, 1)
      [] score_type = "who" -> Frac(recipe.who_health_score, 1)
      [] score_type = "combined" ->
           Frac(recipe.fsa_health_score + recipe.who_health_score, 2)

calculate_health_score(item_id, score_type, item_type) ==
    IF item_type = "course" THEN
        IF ~InRecipes(item_id)
        THEN [error |-> <<"Course not found", item_id>>]
        ELSE IF score_type \notin ScoreTypes
        THEN [error |-> <<"Unknown score type", score_type>>]
        ELSE LET recipe == RecipeOf(item_id)
                 score == ScoreOfType(recipe, score_type)
             IN  [item_id |-> item_id,
                  item_type |-> "course",
                  score_type |-> score_type,
                  score |-> score,
                  health_rating |-> _get_health_rating(score),
                  course_name |-> recipe.course_name,
                  category |-> CategoryName(recipe.category)]
    ELSE IF item_type = "meal" THEN
        IF ~HasKey(meal_course_mapping, item_id)
        THEN [error |-> <<"Meal not found", item_id>>]
        ELSE LET course_indices == Lookup(meal_course_mapping, item_id)
                 keep == [i \in DOMAIN course_indices |->
                            /\ InRecipes(course_indices[i])
                            /\ score_type \in ScoreTypes]
                 present == SelectFrom(course_indices, keep)
                 scores == [i \in DOMAIN present |->
                              ScoreOfType(RecipeOf(present[i]), score_type)]
             IN  IF scores = <<>>
                 THEN [error |-> <<"No valid courses found for meal", item_id>>]
                 ELSE LET avg_score == MeanOf(scores)
                      IN  [item_id |-> item_id,
                           item_type |-> "meal",
                           score_type |-> score_type,
                           score |-> Round2(avg_score),
                           health_rating |-> _get_health_rating(avg_score),
                           course_count |-> Len(scores),
                           individual_scores |-> scores]
    ELSE ReturnsNone

----------------------------------------------------------------------------
(* Input domains *)

CourseIdx == 0..(MaxCourses - 1)
Categories == {0, 1, 2}
(* what the dataset files of the filter specification hold: two of the      *)
(* three categories (so that a valid category can have no course), fsa      *)
(* scores 4 and 6 (default 8 past the end of the file), who score 5         *)
(* (default 7 past the end of the file); 4 + 7 = 6 + 5 is a tie of two      *)
(* different courses                                                        *)
DataCategories == {0, 1}
FsaVals == {4, 6}
WhoVals == {5}

(* dicts with distinct keys from K, values from V, at most n entries *)
Dicts(K, V, n) ==
    {d \in UNION {[1..m -> K \X V] : m \in 0..n} :
        \A i, j \in DOMAIN d : i # j => d[i][1] # d[j][1]}

(* dicts whose keys are in ascending order *)
AscendingDicts(K, V, n) ==
    {d \in Dicts(K, V, n) :
        \A i, j \in DOMAIN d : i < j => d[i][1] < d[j][1]}

Lists(V, n) == UNION {[1..m -> V] : m \in 0..n}

CategoryArgs == {None, Some(""), Some("appetizer"), Some("main"),
                 Some("dessert"), Some("snack")}
LimitArgs == {None} \cup {Some(k) : k \in 0..MaxLimit}
FsaBounds == {None, Some(4)}
WhoBounds == {None, Some(5)}

CriteriaArgs ==
    [category : CategoryArgs, max_fsa_score : FsaBounds,
     max_who_score : WhoBounds, limit : LimitArgs]

----------------------------------------------------------------------------
(* The state after construction, and the query operations *)

(* after construction the files are not read again *)
NoFiles == <<>>
Idle == <<"idle">>
NoResult == [idle |-> TRUE]

(* no chatbot is constructed over the database yet *)
NoChatbot ==
    /\ bot = "none"
    /\ conversation_history = <<>>
    /\ requests = <<>>

Constructed ==
    /\ NoChatbot
    /\ recipes_db = _build_real_recipe_database(course_categories,
                        course_fsa_scores, course_who_scores,
                        meal_course_mapping, course_to_index)
    /\ pc = "ready"
    /\ files = NoFiles
    /\ call = Idle
    /\ result = NoResult

Init ==
    /\ course_categories \in Dicts(CourseIdx, DataCategories, MaxCourses)
    /\ course_fsa_scores \in Lists(FsaVals, MaxCourses)
    /\ course_who_scores \in Lists(WhoVals, MaxCourses)
    /\ meal_course_mapping = <<>>
    /\ course_to_index = <<>>
    /\ user_course_interactions = <<>>
    /\ user_meal_interactions = _load_user_meal_interactions(
                                    <<MissingFile, MissingFile, MissingFile>>)
    /\ Constructed

(* a variant of Returns in which the operation empties the interaction list *)
Returns_clearing(c, r) ==
    /\ pc = "ready"
    /\ call = Idle
    /\ call' = c
    /\ result' = r
    /\ user_course_interactions' = <<>>
    /\ UNCHANGED <<course_categories, course_fsa_scores, course_who_scores,
                   meal_course_mapping, course_to_index,
                   user_meal_interactions, recipes_db, pc, files, chatbot>>

(* an operation is called by the orchestrator and returns r *)
Returns(c, r) ==
    /\ pc = "ready"
    /\ call = Idle
    /\ call' = c
    /\ result' = r
    /\ UNCHANGED <<tables, pc, files, chatbot>>

FilterCourses ==
    \E criteria \in CriteriaArgs :
        Returns(<<"filter_courses", criteria>>, filter_courses(criteria))

SearchCoursesByCategory ==
    \E category \in {Val(c) : c \in CategoryArgs \ {None}},
       limit \in LimitArgs :
        LET l == IF IsNone(limit) THEN DefaultLimit ELSE Val(limit)
        IN  Returns(<<"search_courses_by_category", category, l>>,
                    search_courses_by_category(category, l))

FindHealthyCourses ==
    \E max_fsa_score \in {Val(b) : b \in FsaBounds \ {None}},
       category \in CategoryArgs, limit \in LimitArgs :
        LET l == IF IsNone(limit) THEN DefaultLimit ELSE Val(limit)
        IN  Returns(<<"find_healthy_courses", max_fsa_score, category, l>>,
                    find_healthy_courses(max_fsa_score, category, l))

RetrieveRecipes ==
    \E category \in {None} \cup {Some(c) : c \in Categories},
       max_fsa_score \in FsaBounds, limit \in LimitArgs :
        LET l == IF IsNone(limit) THEN DefaultLimit ELSE Val(limit)
        IN  Returns(<<"retrieve_recipes", category, max_fsa_score, l>>,
                    retrieve_recipes(category, max_fsa_score, l))

(* the caller serialises the returned value and goes on *)
TakeResult ==
    /\ pc = "ready"
    /\ call # Idle
    /\ call' = Idle
    /\ result' = NoResult
    /\ UNCHANGED <<tables, pc, files, chatbot>>

Next ==
    \/ TakeResult
    \/ FilterCourses
    \/ SearchCoursesByCategory
    \/ FindHealthyCourses
    \/ RetrieveRecipes

Spec == Init /\ [][Next]_vars

----------------------------------------------------------------------------
(* Views of a returned course list, for the properties below *)

Op == call[1]
HasError == "error" \in DOMAIN result
ValidCategoryNames == {"appetizer", "main", "dessert"}

ListOps == {"filter_courses", "search_courses_by_category",
            "find_healthy_courses", "retrieve_recipes"}
ReturnsList == Op \in ListOps /\ ~HasError
ReturnedList == IF Op = "retrieve_recipes" THEN result.recipes
                ELSE result.courses
EntryScore(e) == IF Op = "retrieve_recipes"
                 THEN e.fsa_health_score + e.who_health_score
                 ELSE e.fsa_score + e.who_score
ReturnedIdx == {ReturnedList[i].course_index : i \in DOMAIN ReturnedList}
ReportedTotal == IF Op = "search_courses_by_category"
                 THEN result.total_available ELSE result.total_found
CallLimit ==
    CASE Op = "filter_courses" ->
           IF IsNone(call[2].limit) THEN DefaultLimit ELSE Val(call[2].limit)
      [] Op = "search_courses_by_category" -> call[3]
      [] Op \in {"find_healthy_courses", "retrieve_recipes"} -> call[4]

ScoreOf(idx) == RecipeOf(idx).fsa_health_score + RecipeOf(idx).who_health_score

(* the category an optional name argument asks for: every course when it is *)
(* absent or empty, no course when the name is not a category               *)
NameSelects(name, idx) ==
    \/ IsNone(name)
    \/ Val(name) = ""
    \/ /\ Val(name) \in ValidCategoryNames
       /\ RecipeOf(idx).category = category_map[Val(name)]

WithinBound(bound, score) == IsNone(bound) \/ score <= Val(bound)

(* the indexed courses that the arguments of the call ask for *)
MatchingSet ==
    CASE Op = "filter_courses" ->
           {idx \in Keys(recipes_db) :
              /\ NameSelects(call[2].category, idx)
              /\ WithinBound(call[2].max_fsa_score,
                             RecipeOf(idx).fsa_health_score)
              /\ WithinBound(call[2].max_who_score,
                             RecipeOf(idx).who_health_score)}
      [] Op = "search_courses_by_category" ->
           {idx \in Keys(recipes_db) :
              /\ call[2] \in ValidCategoryNames
              /\ RecipeOf(idx).category = category_map[call[2]]}
      [] Op = "find_healthy_courses" ->
           {idx \in Keys(recipes_db) :
              /\ RecipeOf(idx).fsa_health_score <= call[2]
              /\ NameSelects(call[3], idx)}
      [] Op = "retrieve_recipes" ->
           {idx \in Keys(recipes_db) :
              /\ IsNone(call[2]) \/ RecipeOf(idx).category = Val(call[2])
              /\ WithinBound(call[3], RecipeOf(idx).fsa_health_score)}

----------------------------------------------------------------------------
(* C1: the course list returned by filter_courses,                          *)
(* search_courses_by_category, find_healthy_courses and retrieve_recipes is *)
(* sorted ascending by fsa + who, and two returned courses with the same    *)
(* combined score appear in ascending course_index order.                   *)
C1_SortedByScoreThenIndex ==
    ReturnsList =>
        \A i, j \in DOMAIN ReturnedList :
            i < j =>
                \/ EntryScore(ReturnedList[i]) < EntryScore(ReturnedList[j])
                \/ /\ EntryScore(ReturnedList[i]) = EntryScore(ReturnedList[j])
                   /\ ReturnedList[i].course_index
                        < ReturnedList[j].course_index

(* C2: called with limit K where N > K courses match, each of the four      *)
(* operations returns exactly K courses, none with a larger combined score  *)
(* than a matching course left out, and reports N as the total.             *)
C2_TruncateAfterSort ==
    (ReturnsList /\ Cardinality(MatchingSet) > CallLimit) =>
        /\ Len(ReturnedList) = CallLimit
        /\ ReturnedIdx \subseteq MatchingSet
        /\ \A i \in DOMAIN ReturnedList :
             \A idx \in MatchingSet \ ReturnedIdx :
                EntryScore(ReturnedList[i]) <= ScoreOf(idx)
        /\ ReportedTotal = Cardinality(MatchingSet)

(* a limit of 1 with two matching courses, the healthier one listed second  *)
(* in the category table                                                    *)
C2_Witness ==
    /\ Op = "filter_courses"
    /\ CallLimit = 1
    /\ Cardinality(MatchingSet) = 2
    /\ Len(result.courses) = 1
    /\ Len(recipes_db) = 2
    /\ result.courses[1].course_index = CourseIdxAt(2)
    /\ ScoreOf(CourseIdxAt(2)) < ScoreOf(CourseIdxAt(1))

(* C7: search_courses_by_category returns an "Invalid category" error if    *)
(* and only if the category is not appetizer, main or dessert; for a valid  *)
(* category that no course has it returns an empty list with                *)
(* total_available 0 and no error.                                          *)
C7_InvalidCategoryIffError ==
    Op = "search_courses_by_category" =>
        /\ HasError <=> call[2] \notin ValidCategoryNames
        /\ HasError => result.error = <<"Invalid category", call[2]>>
        /\ (call[2] \in ValidCategoryNames /\ MatchingSet = {}) =>
              /\ ~HasError
              /\ result.courses = <<>>
              /\ result.total_available = 0

(* a valid category that no course of a non-empty index has *)
C7_Witness ==
    /\ Op = "search_courses_by_category"
    /\ call[2] = "dessert"
    /\ recipes_db # <<>>
    /\ ~HasError
    /\ result.courses = <<>>
    /\ result.total_available = 0

(* C8: filter_courses and find_healthy_courses called with a non-empty      *)
(* category never return a course of another category; a category outside  *)
(* the three names yields an error result and no courses.                   *)
C8_CategoryArgumentRespected ==
    LET category == IF Op = "filter_courses" THEN call[2].category
                    ELSE call[3]
    IN  (Op \in {"filter_courses", "find_healthy_courses"}
           /\ Truthy(category)) =>
            \/ HasError /\ "courses" \notin DOMAIN result
            \/ \A i \in DOMAIN result.courses :
                  result.courses[i].category = Val(category)

(* C9: filter_courses with a valid or absent category returns, before       *)
(* truncation, exactly the indexed courses that satisfy every given bound   *)
(* inclusively and the category when given.                                 *)
C9_FilterExact ==
    (Op = "filter_courses"
       /\ (~Truthy(call[2].category)
            \/ Val(call[2].category) \in ValidCategoryNames)) =>
        /\ ~HasError
        /\ result.total_found = Cardinality(MatchingSet)
        /\ ReturnedIdx \subseteq MatchingSet
        /\ Len(result.courses) = Cardinality(ReturnedIdx)
        /\ Len(result.courses) =
              IF CallLimit < Cardinality(MatchingSet) THEN CallLimit
              ELSE Cardinality(MatchingSet)

(* a course whose fsa score equals the bound is kept, one above it is not,  *)
(* and the absent who bound excludes nothing                                *)
C9_Witness ==
    /\ Op = "filter_courses"
    /\ call[2].category = Some("main")
    /\ call[2].max_fsa_score = Some(4)
    /\ IsNone(call[2].max_who_score)
    /\ IsNone(call[2].limit)
    /\ Len(result.courses) = 1
    /\ result.courses[1].fsa_score = 4
    /\ result.courses[1].who_score = DefaultWho
    /\ \E idx \in Keys(recipes_db) :
          RecipeOf(idx).category = 1 /\ RecipeOf(idx).fsa_health_score > 4

----------------------------------------------------------------------------
(* The swap specification: a course and up to MaxOthers other courses,      *)
(* fsa scores 3 and 5 (default 8), thresholds 1 and 2, so that an           *)
(* improvement can fall below, on and above the threshold; an index table   *)
(* that is empty or maps one external id.                                   *)

SwapIdx == 0..MaxOthers
SwapFsaVals == {3, 5}
RealIds == {1, 7}
Thresholds == {1, 2}
SwapCourseArgs == SwapIdx \cup RealIds
IndexTables(idxs) ==
    {<<>>} \cup {<< <<id, idx>> >> : id \in RealIds, idx \in idxs}

InitSwap ==
    /\ course_categories \in Dicts(SwapIdx, DataCategories, MaxOthers + 1)
    /\ course_fsa_scores \in Lists(SwapFsaVals, MaxOthers + 1)
    /\ course_who_scores = <<>>
    /\ meal_course_mapping = <<>>
    /\ course_to_index \in IndexTables(SwapIdx)
    /\ user_course_interactions = <<>>
    /\ user_meal_interactions = _load_user_meal_interactions(
                                    <<MissingFile, MissingFile, MissingFile>>)
    /\ Constructed

SwapForHealthier ==
    \E course_id \in SwapCourseArgs, improvement_threshold \in Thresholds :
        Returns(<<"swap_for_healthier", course_id, improvement_threshold>>,
                swap_for_healthier(course_id, improvement_threshold))

NextSwap ==
    \/ TakeResult
    \/ SwapForHealthier

SpecSwap == InitSwap /\ [][NextSwap]_vars

(* the course a swap call is about, and the courses that qualify *)
SwapOriginal == IF HasKey(course_to_index, call[2])
                THEN Lookup(course_to_index, call[2]) ELSE call[2]
SameCategoryOthers ==
    {idx \in Keys(recipes_db) :
        /\ idx # SwapOriginal
        /\ RecipeOf(idx).category = RecipeOf(SwapOriginal).category}
Improvement(idx) ==
    RecipeOf(SwapOriginal).fsa_health_score - RecipeOf(idx).fsa_health_score
Qualifying == {idx \in SameCategoryOthers : Improvement(idx) > call[3]}

(* C4: a returned healthier_alternative is another course of the same      *)
(* category with fsa strictly below original - threshold, no qualifying    *)
(* course has a lower fsa score, and total_alternatives counts the         *)
(* qualifying courses.                                                     *)
C4_BestAlternative ==
    (Op = "swap_for_healthier" /\ "healthier_alternative" \in DOMAIN result) =>
        LET alt == result.healthier_alternative.course_index
        IN  /\ InRecipes(SwapOriginal)
            /\ alt \in Keys(recipes_db)
            /\ alt # SwapOriginal
            /\ RecipeOf(alt).category = RecipeOf(SwapOriginal).category
            /\ RecipeOf(alt).fsa_health_score
                 < RecipeOf(SwapOriginal).fsa_health_score - call[3]
            /\ result.healthier_alternative.fsa_score
                 = RecipeOf(alt).fsa_health_score
            /\ \A idx \in Qualifying :
                 RecipeOf(alt).fsa_health_score
                   <= RecipeOf(idx).fsa_health_score
            /\ result.total_alternatives = Cardinality(Qualifying)

(* two qualifying courses, the one with the smaller improvement listed     *)
(* first, the other one returned                                           *)
C4_Witness ==
    /\ Op = "swap_for_healthier"
    /\ "healthier_alternative" \in DOMAIN result
    /\ result.total_alternatives = 2
    /\ \E p, q \in DOMAIN recipes_db :
          /\ p < q
          /\ {CourseIdxAt(p), CourseIdxAt(q)} = Qualifying
          /\ Improvement(CourseIdxAt(p)) < Improvement(CourseIdxAt(q))
          /\ result.healthier_alternative.course_index = CourseIdxAt(q)

(* C5: swap_for_healthier returns a healthier alternative whenever some    *)
(* other course of the same category improves the fsa score by at least    *)
(* the threshold, the improvement equal to the threshold included, and     *)
(* reports that there is none only when no such course exists.             *)
C5_AlternativeWhenImprovementAtLeastThreshold ==
    (Op = "swap_for_healthier" /\ ~HasError) =>
        ("healthier_alternative" \in DOMAIN result
           <=> \E idx \in SameCategoryOthers : Improvement(idx) >= call[3])

(* C6: for a known course with no qualifying candidate the result has no   *)
(* "error" key and carries the original course, a message and              *)
(* alternatives_checked, the number of other courses of the category; an   *)
(* "error" result is returned only when the course is not in the index.    *)
C6_NoAlternativeIsNotAnError ==
    Op = "swap_for_healthier" =>
        /\ HasError <=> ~InRecipes(SwapOriginal)
        /\ (InRecipes(SwapOriginal) /\ Qualifying = {}) =>
              /\ DOMAIN result =
                    {"original_course", "message", "alternatives_checked"}
              /\ result.original_course.fsa_score
                    = RecipeOf(SwapOriginal).fsa_health_score
              /\ result.original_course.course_name
                    = RecipeOf(SwapOriginal).course_name
              /\ result.alternatives_checked
                    = Cardinality(SameCategoryOthers)

(* a known course, other courses of its category, none of them qualifying  *)
C6_Witness ==
    /\ Op = "swap_for_healthier"
    /\ InRecipes(SwapOriginal)
    /\ "message" \in DOMAIN result
    /\ result.alternatives_checked = 2
    /\ HasKey(course_to_index, call[2])

----------------------------------------------------------------------------
(* The constructor MealDatabase.__init__: the loaders run one after the     *)
(* other on the dataset files, then the recipe index is built.  The dataset *)
(* is a well-formed one in which at most one file is replaced by an         *)
(* arbitrary file of at most MaxLines lines, or is missing.                 *)

Facets == {"categories", "fsa", "who", "meal_course", "course_to_index",
           "user_course", "train", "test", "tune"}

PairLines(A, B) == {<<"pair", a, b>> : a \in A, b \in B}
                      \cup {<<"short">>, <<"bad">>}
ScoreLines == {<<"num", 3>>, <<"num", 5>>, <<"bad">>}

FacetLines(facet) ==
    CASE facet = "categories" -> PairLines({0, 1}, DataCategories)
      [] facet \in {"fsa", "who"} -> ScoreLines
      [] facet = "meal_course" -> PairLines({0, 1}, {0, 1})
      [] facet = "course_to_index" -> PairLines(RealIds, {0, 1})
      [] OTHER -> PairLines({1}, {0, 1})

FacetFiles(facet) ==
    {MissingFile} \cup {File(l) : l \in Lists(FacetLines(facet), MaxLines)}

WellFormedDataset ==
    [categories |-> File(<< <<"pair", 0, 0>>, <<"pair", 1, 1>> >>),
     fsa |-> File(<< <<"num", 5>>, <<"num", 3>> >>),
     who |-> File(<< <<"num", 5>> >>),
     meal_course |-> File(<< <<"pair", 0, 0>>, <<"pair", 0, 1>> >>),
     course_to_index |-> File(<< <<"pair", 7, 0>> >>),
     user_course |-> File(<< <<"pair", 1, 0>> >>),
     train |-> File(<< <<"pair", 1, 0>> >>),
     test |-> File(<< <<"short">> >>),
     tune |-> File(<< <<"pair", 1, 0>>, <<"pair", 1, 0>> >>)]

Datasets ==
    {[WellFormedDataset EXCEPT ![facet] = f] :
        <<facet, f>> \in UNION {{<<x, y>> : y \in FacetFiles(x)} : x \in Facets}}

InitLoad ==
    /\ files \in Datasets
    /\ course_categories = <<>>
    /\ course_fsa_scores = <<>>
    /\ course_who_scores = <<>>
    /\ meal_course_mapping = <<>>
    /\ course_to_index = <<>>
    /\ user_course_interactions = <<>>
    /\ user_meal_interactions = <<>>
    /\ recipes_db = <<>>
    /\ pc = "load_course_categories"
    /\ call = <<"__init__">>
    /\ result = NoResult
    /\ NoChatbot

LoadCourseCategories ==
    /\ pc = "load_course_categories"
    /\ course_categories' = _load_course_categories(files.categories)
    /\ pc' = "load_fsa_scores"
    /\ UNCHANGED <<course_fsa_scores, course_who_scores, meal_course_mapping,
                   course_to_index, user_course_interactions,
                   user_meal_interactions, recipes_db, files, call, result, chatbot>>

LoadFsaScores ==
    /\ pc = "load_fsa_scores"
    /\ course_fsa_scores' = _load_health_scores(files.fsa)
    /\ pc' = "load_who_scores"
    /\ UNCHANGED <<course_categories, course_who_scores, meal_course_mapping,
                   course_to_index, user_course_interactions,
                   user_meal_interactions, recipes_db, files, call, result, chatbot>>

LoadWhoScores ==
    /\ pc = "load_who_scores"
    /\ course_who_scores' = _load_health_scores(files.who)
    /\ pc' = "load_meal_course_mapping"
    /\ UNCHANGED <<course_categories, course_fsa_scores, meal_course_mapping,
                   course_to_index, user_course_interactions,
                   user_meal_interactions, recipes_db, files, call, result, chatbot>>

LoadMealCourseMapping ==
    /\ pc = "load_meal_course_mapping"
    /\ meal_course_mapping' = _load_meal_course_mapping(files.meal_course)
    /\ pc' = "load_course_to_index"
    /\ UNCHANGED <<course_categories, course_fsa_scores, course_who_scores,
                   course_to_index, user_course_interactions,
                   user_meal_interactions, recipes_db, files, call, result, chatbot>>

LoadCourseToIndex ==
    /\ pc = "load_course_to_index"
    /\ course_to_index' = _load_course_to_index(files.course_to_index)
    /\ pc' = "load_user_course_interactions"
    /\ UNCHANGED <<course_categories, course_fsa_scores, course_who_scores,
                   meal_course_mapping, user_course_interactions,
                   user_meal_interactions, recipes_db, files, call, result, chatbot>>

LoadUserCourseInteractions ==
    /\ pc = "load_user_course_interactions"
    /\ user_course_interactions'
          = _load_user_course_interactions(files.user_course)
    /\ pc' = "load_user_meal_interactions"
    /\ UNCHANGED <<course_categories, course_fsa_scores, course_who_scores,
                   meal_course_mapping, course_to_index,
                   user_meal_interactions, recipes_db, files, call, result, chatbot>>

LoadUserMealInteractions ==
    /\ pc = "load_user_meal_interactions"
    /\ user_meal_interactions' = _load_user_meal_interactions(
                                    <<files.train, files.test, files.tune>>)
    /\ pc' = "build_recipe_database"
    /\ UNCHANGED <<course_categories, course_fsa_scores, course_who_scores,
                   meal_course_mapping, course_to_index,
                   user_course_interactions, recipes_db, files, call, result, chatbot>>

BuildRecipeDatabase ==
    /\ pc = "build_recipe_database"
    /\ recipes_db' = _build_real_recipe_database(course_categories,
                         course_fsa_scores, course_who_scores,
                         meal_course_mapping, course_to_index)
    /\ pc' = "ready"
    /\ call' = Idle
    /\ UNCHANGED <<course_categories, course_fsa_scores, course_who_scores,
                   meal_course_mapping, course_to_index,
                   user_course_interactions, user_meal_interactions,
                   files, result, chatbot>>

NextLoad ==
    \/ LoadCourseCategories
    \/ LoadFsaScores
    \/ LoadWhoScores
    \/ LoadMealCourseMapping
    \/ LoadCourseToIndex
    \/ LoadUserCourseInteractions
    \/ LoadUserMealInteractions
    \/ BuildRecipeDatabase

SpecLoad == InitLoad /\ [][NextLoad]_vars

(* the table a facet's loader returned *)
LoadedTable(facet) ==
    CASE facet = "categories" -> course_categories
      [] facet = "fsa" -> course_fsa_scores
      [] facet = "who" -> course_who_scores
      [] facet = "meal_course" -> meal_course_mapping
      [] facet = "course_to_index" -> course_to_index
      [] facet = "user_course" -> user_course_interactions
      [] facet = "train" -> user_meal_interactions[1][2]
      [] facet = "test" -> user_meal_interactions[2][2]
      [] facet = "tune" -> user_meal_interactions[3][2]

(* C3: each loader returns an empty table whenever its file is missing or   *)
(* holds a line that cannot be parsed, never a partially filled one, and    *)
(* the construction completes with the other tables loaded.                 *)
C3_UnparseableFileGivesEmptyTable ==
    pc = "ready" =>
        \A facet \in Facets :
            (~files[facet].exists \/ Unparseable(files[facet]))
                => LoadedTable(facet) = <<>>

----------------------------------------------------------------------------
(* The score specification: courses of one category, fsa score 4 (default  *)
(* 8), who score 5 (default 7), and at most one meal, number 1, of up to   *)
(* MaxCourses course entries, some of which may not be in the index.       *)

MealEntries == 0..MaxCourses
MealTables ==
    {<<>>} \cup {<< <<1, l>> >> : l \in Lists(MealEntries, MaxCourses) \ {<<>>}}
ItemIds == 0..MaxCourses
ScoreTypeArgs == ScoreTypes \cup {"sugar"}
ItemTypeArgs == {"course", "meal", "recipe"}

InitScore ==
    /\ course_categories \in Dicts(CourseIdx, {1}, MaxCourses)
    /\ course_fsa_scores \in Lists({4}, MaxCourses)
    /\ course_who_scores \in Lists(WhoVals, MaxCourses)
    /\ meal_course_mapping \in MealTables
    /\ course_to_index = <<>>
    /\ user_course_interactions = <<>>
    /\ user_meal_interactions = _load_user_meal_interactions(
                                    <<MissingFile, MissingFile, MissingFile>>)
    /\ Constructed

CalculateHealthScore ==
    \E item_id \in ItemIds, score_type \in ScoreTypeArgs,
       item_type \in ItemTypeArgs :
        Returns(<<"calculate_health_score", item_id, score_type, item_type>>,
                calculate_health_score(item_id, score_type, item_type))

NextScore ==
    \/ TakeResult
    \/ CalculateHealthScore

SpecScore == InitScore /\ [][NextScore]_vars

(* C10: calculate_health_score returns an {"error": ...} result naming the  *)
(* invalid value for every call whose score_type is not fsa, who or         *)
(* combined or whose item_type is not course or meal; it never returns None *)
(* and never another error for a bad score_type.                            *)
C10_InvalidEnumGivesNamedError ==
    (Op = "calculate_health_score"
        /\ (call[3] \notin ScoreTypes \/ call[4] \notin {"course", "meal"})) =>
        /\ result # ReturnsNone
        /\ HasError
        /\ result.error[2] \in {call[3], call[4]} \ (ScoreTypes \cup {"course", "meal"})

----------------------------------------------------------------------------
(* MealPlanningTools: meal composition, meal plan, user history, recipe     *)
(* summary and similar meals                                                *)

(* a variant of IndexedCourses that keeps one entry per course *)
IndexedCourses_distinct(course_indices) ==
    SelectFrom(course_indices,
               [i \in DOMAIN course_indices |->
                    /\ InRecipes(course_indices[i])
                    /\ \A j \in 1..(i - 1) :
                           course_indices[j] # course_indices[i]])

(* the entries of a meal's course list that are in the recipe index, in     *)
(* stored order and with multiplicity                                       *)
IndexedCourses(course_indices) ==
    SelectFrom(course_indices,
               [i \in DOMAIN course_indices |-> InRecipes(course_indices[i])])

get_meal_composition(meal_id) ==
    IF ~HasKey(meal_course_mapping, meal_id)
    THEN [error |-> <<"Meal not found", meal_id>>]
    ELSE LET course_indices == Lookup(meal_course_mapping, meal_id)
             present == IndexedCourses(course_indices)
             courses == [i \in DOMAIN present |->
                           LET recipe == RecipeOf(present[i])
                           IN  [course_index |-> present[i],
                                course_id |-> _get_real_course_id(present[i]),
                                course_name |-> recipe.course_name,
                                category |-> CategoryName(recipe.category),
                                fsa_score |-> recipe.fsa_health_score,
                                who_score |-> recipe.who_health_score]]
             total_fsa == SumSeq([i \in DOMAIN courses |-> courses[i].fsa_score])
             total_who == SumSeq([i \in DOMAIN courses |-> courses[i].who_score])
             n == IF courses # <<>> THEN Len(courses) ELSE 1
             avg_fsa == IF courses # <<>> THEN Frac(total_fsa, n) ELSE Frac(0, 1)
             avg_who == IF courses # <<>> THEN Frac(total_who, n) ELSE Frac(0, 1)
         IN  [meal_id |-> meal_id,
              courses |-> courses,
              course_count |-> Len(courses),
              average_scores |->
                 [fsa |-> Round2(avg_fsa),
                  who |-> Round2(avg_who),
                  combined |-> Round2(Frac(avg_fsa.n + avg_who.n, 2 * n))],
              health_rating |-> _get_health_rating(avg_fsa)]

(* goal.get(key, default) for the three keys of a goal; an absent key is    *)
(* None                                                                     *)
DefaultFocus == "balanced"
DefaultCategories == <<"appetizer", "main", "dessert">>
DefaultThreshold == 8
health_thresholds ==
    [weight_loss |-> 5, heart_healthy |-> 6, balanced |-> 8, low_sodium |-> 7]

(* max_avg_health_score or health_thresholds.get(health_focus, 8.0): the    *)
(* left operand is taken when it is truthy, that is neither None nor 0      *)
plan_max_score(max_avg_health_score, health_focus) ==
    IF ~IsNone(max_avg_health_score) /\ Val(max_avg_health_score) # 0
    THEN Val(max_avg_health_score)
    ELSE IF health_focus \in DOMAIN health_thresholds
         THEN health_thresholds[health_focus]
         ELSE DefaultThreshold

(* the mutation: the first course found is taken *)
plan_first(best_courses) == best_courses[1]

(* best_courses.sort(key=fsa + who); best_courses[0] *)
plan_best(best_courses) ==
    StableSort(best_courses,
        [i \in DOMAIN best_courses |->
            best_courses[i][2].fsa_health_score
              + best_courses[i][2].who_health_score])[1]

(* the loop over include_categories, filling the dict meal_plan *)
RECURSIVE plan_loop(_, _, _)
plan_loop(include_categories, max_score, meal_plan) ==
    IF include_categories = <<>> THEN meal_plan
    ELSE LET category == Head(include_categories)
             category_idx == CategoryMapGet(category)
             pairs == [p \in DOMAIN recipes_db |-> <<CourseIdxAt(p), Recipe(p)>>]
             keep == [p \in DOMAIN recipes_db |->
                        /\ Recipe(p).category = Val(category_idx)
                        /\ Recipe(p).fsa_health_score <= max_score]
             best_courses == SelectFrom(pairs, keep)
             best == plan_best(best_courses)
         IN  IF IsNone(category_idx) \/ best_courses = <<>>
             THEN plan_loop(Tail(include_categories), max_score, meal_plan)
             ELSE plan_loop(Tail(include_categories), max_score,
                    PutKey(meal_plan, category,
                        [course_index |-> best[1],
                         course_id |-> _get_real_course_id(best[1]),
                         course_name |-> best[2].course_name,
                         fsa_score |-> best[2].fsa_health_score,
                         who_score |-> best[2].who_health_score,
                         category |-> category]))

generate_meal_plan(goal) ==
    LET health_focus == IF IsNone(goal.health_focus) THEN DefaultFocus
                        ELSE Val(goal.health_focus)
        max_avg_health_score == goal.max_avg_health_score
        include_categories ==
            IF IsNone(goal.include_categories) THEN DefaultCategories
            ELSE Val(goal.include_categories)
        max_score == plan_max_score(max_avg_health_score, health_focus)
        meal_plan == plan_loop(include_categories, max_score, <<>>)
        n == Len(meal_plan)
        avg_fsa == IF meal_plan # <<>>
                   THEN Frac(SumSeq([i \in DOMAIN meal_plan |->
                                        meal_plan[i][2].fsa_score]), n)
                   ELSE Frac(0, 1)
        avg_who == IF meal_plan # <<>>
                   THEN Frac(SumSeq([i \in DOMAIN meal_plan |->
                                        meal_plan[i][2].who_score]), n)
                   ELSE Frac(0, 1)
    IN  [meal_plan |-> meal_plan,
         goal |-> goal,
         average_fsa_score |-> Round2(avg_fsa),
         average_who_score |-> Round2(avg_who),
         health_focus |-> health_focus,
         courses_included |-> n]

(* round(x, 1): the nearest multiple of 1/10, ties to the even one *)
Round1(x) ==
    LET h == (x.n * 10) \div x.d
        r == (x.n * 10) % x.d
    IN  Frac(IF 2 * r > x.d \/ (2 * r = x.d /\ h % 2 = 1) THEN h + 1 ELSE h,
             10)

(* the mutation: the last of the maximal keys is taken *)
max_by_value_last(d) ==
    d[CHOOSE i \in DOMAIN d :
         \A j \in DOMAIN d :
            d[j][2].n < d[i][2].n \/ (d[j][2].n = d[i][2].n /\ j <= i)][1]

(* max(d.keys(), key=d.get): the first key, in the order of the dict, whose *)
(* value no other value exceeds (the values have one denominator)           *)
max_by_value(d) ==
    d[CHOOSE i \in DOMAIN d :
         \A j \in DOMAIN d :
            d[j][2].n < d[i][2].n \/ (d[j][2].n = d[i][2].n /\ j >= i)][1]

(* [x for uid, x in pairs if uid == user_id] *)
OfUser(pairs, user_id) ==
    LET hit == SelectFrom(pairs, [i \in DOMAIN pairs |-> pairs[i][1] = user_id])
    IN  [i \in DOMAIN hit |-> hit[i][2]]

(* a variant of user_meals_of that reads the train split only *)
user_meals_of_train(splits, user_id) ==
    OfUser(Lookup(user_meal_interactions, "train"), user_id)

RECURSIVE user_meals_of(_, _)
user_meals_of(splits, user_id) ==
    IF splits = <<>> THEN <<>>
    ELSE LET split == Head(splits)
             pairs == IF HasKey(user_meal_interactions, split)
                      THEN Lookup(user_meal_interactions, split) ELSE <<>>
         IN  OfUser(pairs, user_id) \o user_meals_of(Tail(splits), user_id)

get_user_history(user_id) ==
    LET user_courses == OfUser(user_course_interactions, user_id)
        user_meals == user_meals_of(Splits, user_id)
        present == IndexedCourses(user_courses)
        category_counts ==
            [c \in {0, 1, 2} |->
                Cardinality({i \in DOMAIN present :
                                RecipeOf(present[i]).category = c})]
        health_scores == [i \in DOMAIN present |->
                             RecipeOf(present[i]).fsa_health_score]
        total_courses == category_counts[0] + category_counts[1]
                           + category_counts[2]
        category_preferences ==
            IF total_courses > 0
            THEN << <<"appetizer",
                      Round1(Frac(category_counts[0] * 100, total_courses))>>,
                    <<"main",
                      Round1(Frac(category_counts[1] * 100, total_courses))>>,
                    <<"dessert",
                      Round1(Frac(category_counts[2] * 100, total_courses))>> >>
            ELSE <<>>
        avg_health_score ==
            IF health_scores # <<>>
            THEN Frac(SumSeq(health_scores), Len(health_scores))
            ELSE Frac(0, 1)
    IN  IF user_courses = <<>> /\ user_meals = <<>>
        THEN [error |-> <<"No history found for user", user_id>>]
        ELSE [user_id |-> user_id,
              total_courses |-> Len(user_courses),
              total_meals |-> Len(user_meals),
              category_preferences |-> category_preferences,
              average_health_score |-> Round2(avg_health_score),
              health_preference |-> _get_health_rating(avg_health_score),
              most_preferred_category |->
                 IF category_preferences # <<>>
                 THEN Some(max_by_value(category_preferences))
                 ELSE None]

(* the summary text is the tuple of the values formatted into it *)
summarize_recipe(course_id) ==
    LET course_idx == convert_course_id_to_index(course_id)
        recipe == RecipeOf(course_idx)
        category_name ==
            <<"appetizer", "main course", "dessert">>[recipe.category + 1]
        health_rating == _get_health_rating(Frac(recipe.fsa_health_score, 1))
        meal_count == Len(recipe.meal_affiliations)
        popularity == IF meal_count > 10 THEN "very popular"
                      ELSE IF meal_count > 5 THEN "popular" ELSE "moderate"
        tier == IF recipe.fsa_health_score <= 5 THEN "excellent choice"
                ELSE IF recipe.fsa_health_score <= 7 THEN "good balance"
                ELSE "occasional treat"
    IN  IF ~InRecipes(course_idx)
        THEN [error |-> <<"Course not found", course_id>>]
        ELSE [course_index |-> course_idx,
              course_id |-> _get_real_course_id(course_idx),
              course_name |-> recipe.course_name,
              summary |-> <<recipe.course_name, health_rating, category_name,
                            recipe.fsa_health_score, recipe.who_health_score,
                            popularity, meal_count, tier>>,
              category |-> category_name,
              health_rating |-> health_rating,
              meal_appearances |-> meal_count,
              scores |-> [fsa |-> recipe.fsa_health_score,
                          who |-> recipe.who_health_score]]

(* the mutation: the meals are left in the order of the meal table *)
similar_unsorted(similar_meals) == similar_meals

(* similar_meals.sort(key=average_health_score) *)
similar_sorted(similar_meals) ==
    StableSort(similar_meals,
        [i \in DOMAIN similar_meals |->
            similar_meals[i].average_health_score.n])

recommend_similar_meals(course_id, limit) ==
    LET course_idx == convert_course_id_to_index(course_id)
        reference_recipe == RecipeOf(course_idx)
        reference_category == reference_recipe.category
        meals_with_course == reference_recipe.meal_affiliations
        keep == [m \in DOMAIN meal_course_mapping |->
                   /\ meal_course_mapping[m][1] \notin Range(meals_with_course)
                   /\ \E i \in DOMAIN meal_course_mapping[m][2] :
                        LET idx == meal_course_mapping[m][2][i]
                        IN  /\ InRecipes(idx)
                            /\ RecipeOf(idx).category = reference_category]
        entries == [m \in DOMAIN meal_course_mapping |->
                      LET meal_id == meal_course_mapping[m][1]
                          course_indices == meal_course_mapping[m][2]
                          present == IndexedCourses(course_indices)
                          meal_scores == [i \in DOMAIN present |->
                              RecipeOf(present[i]).fsa_health_score]
                          avg_score ==
                              IF meal_scores # <<>>
                              THEN Frac(SumSeq(meal_scores), Len(meal_scores))
                              ELSE Frac(10, 1)
                      IN  [meal_id |-> meal_id,
                           course_count |-> Len(course_indices),
                           average_health_score |-> Round2(avg_score),
                           courses |-> [i \in DOMAIN present |->
                              [course_index |-> present[i],
                               course_id |-> _get_real_course_id(present[i]),
                               course_name |-> RecipeOf(present[i]).course_name,
                               category |-> CategoryName(
                                   RecipeOf(present[i]).category)]]]]
        similar_meals == similar_sorted(SelectFrom(entries, keep))
    IN  IF ~InRecipes(course_idx)
        THEN [error |-> <<"Course not found", course_id>>]
        ELSE [reference_course |->
                 [course_index |-> course_idx,
                  course_id |-> _get_real_course_id(course_idx),
                  course_name |-> reference_recipe.course_name,
                  category |-> CategoryName(reference_category)],
              similar_meals |-> Take(similar_meals, limit),
              total_found |-> Len(similar_meals),
              meals_with_reference_course |-> Len(meals_with_course)]

----------------------------------------------------------------------------
(* The modular variant: the tool classes of src/src/tools and the           *)
(* ToolRegistry that dispatches to them.  Keyword arguments are a record;   *)
(* a call that raises evaluates to [raise |-> <<exception, detail>>].       *)
(* The list comprehensions and sorts that the tool classes share word for   *)
(* word with MealPlanningTools use the same helper operators.               *)

Raise(exception, detail) == [raise |-> <<exception, detail>>]

(* tool.execute with the keyword arguments: a missing required or an unexpected keyword      *)
(* argument raises TypeError before the body runs                           *)
Binds(kwargs, required, optional) ==
    /\ required \subseteq DOMAIN kwargs
    /\ DOMAIN kwargs \subseteq (required \cup optional)
TypeError(kwargs) == Raise("TypeError", DOMAIN kwargs)
Arg(kwargs, name, default) ==
    IF name \in DOMAIN kwargs THEN kwargs[name] ELSE default

(* BaseTool.__init__ sets self.meal_db and nothing else: reading            *)
(* self.rag_db raises AttributeError                                        *)
BaseTool_rag_db(cls) == Raise("AttributeError", <<cls, "rag_db">>)

ToolUtils_get_real_course_id(course_idx) ==
    LET real_id == FirstKeyOf(course_to_index, course_idx)
    IN  IF IsNone(real_id) THEN course_idx ELSE Val(real_id)

ToolUtils_get_health_rating(score) ==
    IF FracLeq(score, 4) THEN "excellent"
    ELSE IF FracLeq(score, 6) THEN "very good"
    ELSE IF FracLeq(score, 8) THEN "good"
    ELSE IF FracLeq(score, 10) THEN "fair"
    ELSE "poor"

(* criteria.get(...) and the category map are evaluated, then the loop      *)
(* header reads self.rag_db                                                 *)
FilterCoursesTool_execute(kwargs) ==
    IF ~Binds(kwargs, {"criteria"}, {}) THEN TypeError(kwargs)
    ELSE BaseTool_rag_db("FilterCoursesTool")

(* an invalid category returns before self.rag_db is read *)
SearchCoursesByCategoryTool_execute(kwargs) ==
    IF ~Binds(kwargs, {"category"}, {"limit"}) THEN TypeError(kwargs)
    ELSE LET category == kwargs.category
             category_idx == CategoryMapGet(category)
         IN  IF IsNone(category_idx)
             THEN [error |-> <<"Invalid category", category>>]
             ELSE BaseTool_rag_db("SearchCoursesByCategoryTool")

FindHealthyCoursesTool_execute(kwargs) ==
    IF ~Binds(kwargs, {"max_fsa_score"}, {"category", "limit"})
    THEN TypeError(kwargs)
    ELSE BaseTool_rag_db("FindHealthyCoursesTool")

(* self.rag_db is read for the first valid category of include_categories;  *)
(* with none the plan stays empty                                           *)
GenerateMealPlanTool_execute(kwargs) ==
    IF ~Binds(kwargs, {"goal"}, {}) THEN TypeError(kwargs)
    ELSE LET goal == kwargs.goal
             health_focus == IF IsNone(goal.health_focus) THEN DefaultFocus
                             ELSE Val(goal.health_focus)
             include_categories ==
                 IF IsNone(goal.include_categories) THEN DefaultCategories
                 ELSE Val(goal.include_categories)
         IN  IF \E i \in DOMAIN include_categories :
                    ~IsNone(CategoryMapGet(include_categories[i]))
             THEN BaseTool_rag_db("GenerateMealPlanTool")
             ELSE [meal_plan |-> <<>>,
                   goal |-> goal,
                   average_fsa_score |-> Round2(Frac(0, 1)),
                   average_who_score |-> Round2(Frac(0, 1)),
                   health_focus |-> health_focus,
                   courses_included |-> 0]

GetMealCompositionTool_execute(kwargs) ==
    IF ~Binds(kwargs, {"meal_id"}, {}) THEN TypeError(kwargs)
    ELSE BaseTool_rag_db("GetMealCompositionTool")

CalculateHealthScoreTool_execute(kwargs) ==
    IF ~Binds(kwargs, {"item_id", "score_type"}, {"item_type"}) THEN TypeError(kwargs)
    ELSE LET item_id == kwargs.item_id
             score_type == kwargs.score_type
             item_type == Arg(kwargs, "item_type", "course")
         IN
             IF item_type = "course" THEN
                 IF ~InRecipes(item_id)
                 THEN [error |-> <<"Course not found", item_id>>]
                 ELSE IF score_type \notin ScoreTypes
                 THEN [error |-> <<"Unknown score type", score_type>>]
                 ELSE LET recipe == RecipeOf(item_id)
                          score == ScoreOfType(recipe, score_type)
                      IN  [item_id |-> item_id,
                           item_type |-> "course",
                           score_type |-> score_type,
                           score |-> score,
                           health_rating |-> ToolUtils_get_health_rating(score),
                           course_name |-> recipe.course_name,
                           category |-> CategoryName(recipe.category)]
             ELSE IF item_type = "meal" THEN
                 IF ~HasKey(meal_course_mapping, item_id)
                 THEN [error |-> <<"Meal not found", item_id>>]
                 ELSE LET course_indices == Lookup(meal_course_mapping, item_id)
                          keep == [i \in DOMAIN course_indices |->
                                     /\ InRecipes(course_indices[i])
                                     /\ score_type \in ScoreTypes]
                          present == SelectFrom(course_indices, keep)
                          scores == [i \in DOMAIN present |->
                                       ScoreOfType(RecipeOf(present[i]), score_type)]
                      IN  IF scores = <<>>
                          THEN [error |-> <<"No valid courses found for meal", item_id>>]
                          ELSE LET avg_score == MeanOf(scores)
                               IN  [item_id |-> item_id,
                                    item_type |-> "meal",
                                    score_type |-> score_type,
                                    score |-> Round2(avg_score),
                                    health_rating |-> ToolUtils_get_health_rating(avg_score),
                                    course_count |-> Len(scores),
                                    individual_scores |-> scores]
             ELSE ReturnsNone

(* the original course is labelled from course_idx in both branches *)
SwapForHealthierTool_execute(kwargs) ==
    IF ~Binds(kwargs, {"course_id"}, {"improvement_threshold"}) THEN TypeError(kwargs)
    ELSE LET course_id == kwargs.course_id
             improvement_threshold == Arg(kwargs, "improvement_threshold", 1)
         IN
             LET course_idx == convert_course_id_to_index(course_id)
                 original_recipe == RecipeOf(course_idx)
                 original_score == original_recipe.fsa_health_score
                 target_category == original_recipe.category
                 keep == [p \in DOMAIN recipes_db |->
                            swap_is_alternative(CourseIdxAt(p), Recipe(p), course_idx,
                                target_category, original_score, improvement_threshold)]
                 triples == [p \in DOMAIN recipes_db |->
                               <<CourseIdxAt(p), Recipe(p),
                                 original_score - Recipe(p).fsa_health_score>>]
                 alternatives == SelectFrom(triples, keep)
                 best == swap_best(alternatives)
             IN  IF ~InRecipes(course_idx)
                 THEN [error |-> <<"Course not found", course_id>>]
                 ELSE IF alternatives = <<>>
                 THEN [original_course |->
                          [course_id |-> ToolUtils_get_real_course_id(course_idx),
                           course_name |-> original_recipe.course_name,
                           fsa_score |-> original_score],
                       message |-> <<"No healthier alternatives found with improvement >=",
                                     improvement_threshold>>,
                       alternatives_checked |-> swap_alternatives_checked(target_category)]
                 ELSE [original_course |->
                          [course_id |-> ToolUtils_get_real_course_id(course_idx),
                           course_name |-> original_recipe.course_name,
                           fsa_score |-> original_score,
                           who_score |-> original_recipe.who_health_score],
                       healthier_alternative |->
                          [course_index |-> best[1],
                           course_id |-> ToolUtils_get_real_course_id(best[1]),
                           course_name |-> best[2].course_name,
                           fsa_score |-> best[2].fsa_health_score,
                           who_score |-> best[2].who_health_score],
                       improvement |->
                          [fsa_improvement |-> best[3],
                           who_improvement |-> original_recipe.who_health_score
                                                 - best[2].who_health_score],
                       category |-> CategoryName(target_category),
                       total_alternatives |-> Len(alternatives)]

GetUserHistoryTool_execute(kwargs) ==
    IF ~Binds(kwargs, {"user_id"}, {}) THEN TypeError(kwargs)
    ELSE LET user_id == kwargs.user_id
         IN
             LET user_courses == OfUser(user_course_interactions, user_id)
                 user_meals == user_meals_of(Splits, user_id)
                 present == IndexedCourses(user_courses)
                 category_counts ==
                     [c \in {0, 1, 2} |->
                         Cardinality({i \in DOMAIN present :
                                         RecipeOf(present[i]).category = c})]
                 health_scores == [i \in DOMAIN present |->
                                      RecipeOf(present[i]).fsa_health_score]
                 total_courses == category_counts[0] + category_counts[1]
                                    + category_counts[2]
                 category_preferences ==
                     IF total_courses > 0
                     THEN << <<"appetizer",
                               Round1(Frac(category_counts[0] * 100, total_courses))>>,
                             <<"main",
                               Round1(Frac(category_counts[1] * 100, total_courses))>>,
                             <<"dessert",
                               Round1(Frac(category_counts[2] * 100, total_courses))>> >>
                     ELSE <<>>
                 avg_health_score ==
                     IF health_scores # <<>>
                     THEN Frac(SumSeq(health_scores), Len(health_scores))
                     ELSE Frac(0, 1)
             IN  IF user_courses = <<>> /\ user_meals = <<>>
                 THEN [error |-> <<"No history found for user", user_id>>]
                 ELSE [user_id |-> user_id,
                       total_courses |-> Len(user_courses),
                       total_meals |-> Len(user_meals),
                       category_preferences |-> category_preferences,
                       average_health_score |-> Round2(avg_health_score),
                       health_preference |-> ToolUtils_get_health_rating(avg_health_score),
                       most_preferred_category |->
                          IF category_preferences # <<>>
                          THEN Some(max_by_value(category_preferences))
                          ELSE None]

SummarizeRecipeTool_execute(kwargs) ==
    IF ~Binds(kwargs, {"course_id"}, {}) THEN TypeError(kwargs)
    ELSE LET course_id == kwargs.course_id
         IN
             LET course_idx == convert_course_id_to_index(course_id)
                 recipe == RecipeOf(course_idx)
                 category_name ==
                     <<"appetizer", "main course", "dessert">>[recipe.category + 1]
                 health_rating == ToolUtils_get_health_rating(Frac(recipe.fsa_health_score, 1))
                 meal_count == Len(recipe.meal_affiliations)
                 popularity == IF meal_count > 10 THEN "very popular"
                               ELSE IF meal_count > 5 THEN "popular" ELSE "moderate"
                 tier == IF recipe.fsa_health_score <= 5 THEN "excellent choice"
                         ELSE IF recipe.fsa_health_score <= 7 THEN "good balance"
                         ELSE "occasional treat"
             IN  IF ~InRecipes(course_idx)
                 THEN [error |-> <<"Course not found", course_id>>]
                 ELSE [course_index |-> course_idx,
                       course_id |-> ToolUtils_get_real_course_id(course_idx),
                       course_name |-> recipe.course_name,
                       summary |-> <<recipe.course_name, health_rating, category_name,
                                     recipe.fsa_health_score, recipe.who_health_score,
                                     popularity, meal_count, tier>>,
                       category |-> category_name,
                       health_rating |-> health_rating,
                       meal_appearances |-> meal_count,
                       scores |-> [fsa |-> recipe.fsa_health_score,
                                   who |-> recipe.who_health_score]]

RecommendSimilarMealsTool_execute(kwargs) ==
    IF ~Binds(kwargs, {"course_id"}, {"limit"}) THEN TypeError(kwargs)
    ELSE LET course_id == kwargs.course_id
             limit == Arg(kwargs, "limit", 5)
         IN
             LET course_idx == convert_course_id_to_index(course_id)
                 reference_recipe == RecipeOf(course_idx)
                 reference_category == reference_recipe.category
                 meals_with_course == reference_recipe.meal_affiliations
                 keep == [m \in DOMAIN meal_course_mapping |->
                            /\ meal_course_mapping[m][1] \notin Range(meals_with_course)
                            /\ \E i \in DOMAIN meal_course_mapping[m][2] :
                                 LET idx == meal_course_mapping[m][2][i]
                                 IN  /\ InRecipes(idx)
                                     /\ RecipeOf(idx).category = reference_category]
                 entries == [m \in DOMAIN meal_course_mapping |->
                               LET meal_id == meal_course_mapping[m][1]
                                   course_indices == meal_course_mapping[m][2]
                                   present == IndexedCourses(course_indices)
                                   meal_scores == [i \in DOMAIN present |->
                                       RecipeOf(present[i]).fsa_health_score]
                                   avg_score ==
                                       IF meal_scores # <<>>
                                       THEN Frac(SumSeq(meal_scores), Len(meal_scores))
                                       ELSE Frac(10, 1)
                               IN  [meal_id |-> meal_id,
                                    course_count |-> Len(course_indices),
                                    average_health_score |-> Round2(avg_score),
                                    courses |-> [i \in DOMAIN present |->
                                       [course_index |-> present[i],
                                        course_id |-> ToolUtils_get_real_course_id(present[i]),
                                        course_name |-> RecipeOf(present[i]).course_name,
                                        category |-> CategoryName(
                                            RecipeOf(present[i]).category)]]]]
                 similar_meals == similar_sorted(SelectFrom(entries, keep))
             IN  IF ~InRecipes(course_idx)
                 THEN [error |-> <<"Course not found", course_id>>]
                 ELSE [reference_course |->
                          [course_index |-> course_idx,
                           course_id |-> ToolUtils_get_real_course_id(course_idx),
                           course_name |-> reference_recipe.course_name,
                           category |-> CategoryName(reference_category)],
                       similar_meals |-> Take(similar_meals, limit),
                       total_found |-> Len(similar_meals),
                       meals_with_reference_course |-> Len(meals_with_course)]

(* ToolRegistry._initialize_tools: the ten registered names *)
ToolNames ==
    {"filter_courses", "search_courses_by_category", "find_healthy_courses",
     "generate_meal_plan", "get_meal_composition", "calculate_health_score",
     "swap_for_healthier", "get_user_history", "summarize_recipe",
     "recommend_similar_meals"}

(* self._tools.get(tool_name) *)
ToolRegistry_get_tool(tool_name) ==
    IF tool_name \in ToolNames THEN Some(tool_name) ELSE None

(* tool.execute with the keyword arguments of the tool registered under the name *)
Tool_execute(tool, kwargs) ==
    CASE tool = "filter_courses" -> FilterCoursesTool_execute(kwargs)
      [] tool = "search_courses_by_category" ->
           SearchCoursesByCategoryTool_execute(kwargs)
      [] tool = "find_healthy_courses" -> FindHealthyCoursesTool_execute(kwargs)
      [] tool = "generate_meal_plan" -> GenerateMealPlanTool_execute(kwargs)
      [] tool = "get_meal_composition" -> GetMealCompositionTool_execute(kwargs)
      [] tool = "calculate_health_score" ->
           CalculateHealthScoreTool_execute(kwargs)
      [] tool = "swap_for_healthier" -> SwapForHealthierTool_execute(kwargs)
      [] tool = "get_user_history" -> GetUserHistoryTool_execute(kwargs)
      [] tool = "summarize_recipe" -> SummarizeRecipeTool_execute(kwargs)
      [] tool = "recommend_similar_meals" ->
           RecommendSimilarMealsTool_execute(kwargs)

(* the mutation: the exception of a tool is handed to the caller *)
execute_tool_uncaught(r) == r

(* try: return tool.execute with the keyword arguments  except Exception as e: ... *)
execute_tool_caught(r) ==
    IF "raise" \in DOMAIN r
    THEN [error |-> <<"Tool execution failed", r.raise>>]
    ELSE r

ToolRegistry_execute_tool(tool_name, kwargs) ==
    LET tool == ToolRegistry_get_tool(tool_name)
    IN  IF IsNone(tool)
        THEN [error |-> <<"Unknown tool", tool_name>>]
        ELSE execute_tool_caught(Tool_execute(Val(tool), kwargs))

----------------------------------------------------------------------------
(* The simple variant: MealDatabase of src/src/database.py and the three    *)
(* tools of src/src/tools.py.  Its loaders parse course_category.txt and    *)
(* healthiness/course_fsa.txt line by line as the loaders above do, so its  *)
(* tables are read off course_categories and course_fsa_scores.  A course   *)
(* is [id, name, category, fsa], fsa None while the key "fsa" is absent.    *)
(* random.choice makes generate_meal_plan nondeterministic: an operation of *)
(* this variant evaluates to the set of the results it can return.          *)

(* self.courses: categories.get(category_id, "unknown") *)
Simple_courses ==
    [p \in DOMAIN course_categories |->
        LET course_id == course_categories[p][1]
            category_id == course_categories[p][2]
        IN  [id |-> course_id,
             name |-> <<"Course", course_id>>,
             category |-> IF category_id \in {0, 1, 2}
                          THEN CategoryName(category_id) ELSE "unknown",
             fsa |-> None]]

(* self.health_scores.get(course_id, default) *)
Simple_health(course_id, default) ==
    IF course_id + 1 \in DOMAIN course_fsa_scores
    THEN Some(course_fsa_scores[course_id + 1]) ELSE default

(* the loop "append; if len(results) >= limit: break": the first limit      *)
(* matches, and the first match alone when limit < 1                        *)
Simple_first(matches, limit) == Take(matches, IF limit >= 1 THEN limit ELSE 1)

Simple_search_courses_by_category(category, limit) ==
    LET keep == [p \in DOMAIN Simple_courses |->
                   Simple_courses[p].category = category]
        with_health == [p \in DOMAIN Simple_courses |->
            [Simple_courses[p] EXCEPT
                !.fsa = Simple_health(Simple_courses[p].id, None)]]
    IN  Simple_first(SelectFrom(with_health, keep), limit)

Simple_filter_healthy_courses(max_fsa_score, limit) ==
    LET with_health == [p \in DOMAIN Simple_courses |->
            [Simple_courses[p] EXCEPT
                !.fsa = Simple_health(Simple_courses[p].id, Some(10))]]
        keep == [p \in DOMAIN with_health |->
                   Val(with_health[p].fsa) <= max_fsa_score]
        results == Simple_first(SelectFrom(with_health, keep), limit)
    IN  StableSort(results, [i \in DOMAIN results |-> Val(results[i].fsa)])

Simple_search_tool(category, limit) ==
    LET results == Simple_search_courses_by_category(category, limit)
    IN  {[tool |-> "search_courses_by_category",
          query |-> [category |-> category, limit |-> limit],
          results |-> results,
          count |-> Len(results)]}

Simple_filter_tool(max_fsa_score, category, limit) ==
    LET healthy_results == Simple_filter_healthy_courses(max_fsa_score, limit * 3)
        filtered ==
            IF Truthy(category)
            THEN SelectFrom(healthy_results,
                    [i \in DOMAIN healthy_results |->
                        healthy_results[i].category = Val(category)])
            ELSE healthy_results
        results == Take(filtered, limit)
    IN  {[tool |-> "filter_healthy_courses",
          query |-> [max_fsa_score |-> max_fsa_score, category |-> category,
                     limit |-> limit],
          results |-> results,
          count |-> Len(results)]}

(* "Excellent" if avg_fsa < 3 else "Good" if avg_fsa < 5 else "Fair" *)
Simple_health_rating(avg_fsa) ==
    IF avg_fsa.n < 3 * avg_fsa.d THEN "Excellent"
    ELSE IF avg_fsa.n < 5 * avg_fsa.d THEN "Good"
    ELSE "Fair"

(* the course lists one meal can get: per category one of the candidates,   *)
(* picked by random.choice, or no course when there is no candidate         *)
Simple_meal_choices(goal) ==
    LET candidates(category) ==
            IF goal = "healthy"
            THEN LET c == Simple_filter_healthy_courses(4, 50)
                 IN  SelectFrom(c, [i \in DOMAIN c |-> c[i].category = category])
            ELSE Simple_search_courses_by_category(category, 50)
        pick(category) ==
            IF candidates(category) = <<>> THEN {<<>>}
            ELSE {<<x>> : x \in Range(candidates(category))}
    IN  {a \o b \o c : a \in pick("appetizer"), b \in pick("main"),
                       c \in pick("dessert")}

(* the payload carries avg_fsa, the unrounded average the rating is taken   *)
(* from, next to the fields of the source                                   *)
Simple_generate_meal_plan(goal, num_meals) ==
    LET payload(meals) ==
            LET total_fsa == SumSeq([m \in DOMAIN meals |->
                    SumSeq([i \in DOMAIN meals[m].courses |->
                        IF IsNone(meals[m].courses[i].fsa) THEN 5
                        ELSE Val(meals[m].courses[i].fsa)])])
                count == SumSeq([m \in DOMAIN meals |-> Len(meals[m].courses)])
                avg_fsa == Frac(total_fsa, IF count > 1 THEN count ELSE 1)
            IN  [tool |-> "generate_meal_plan",
                 query |-> [goal |-> goal, num_meals |-> num_meals],
                 meals |-> meals,
                 total_meals |-> Len(meals),
                 avg_fsa |-> avg_fsa,
                 avg_health_score |-> Round2(avg_fsa),
                 health_rating |-> Simple_health_rating(avg_fsa)]
    IN  {payload([i \in 1..num_meals |-> [meal_id |-> i, courses |-> f[i]]]) :
            f \in [1..num_meals -> Simple_meal_choices(goal)]}

Simple_tools ==
    {"search_courses_by_category", "filter_healthy_courses",
     "generate_meal_plan"}

(* execute_tool of src/src/tools.py; the keyword arguments are well typed *)
Simple_execute_tool(tool_name, kwargs) ==
    IF tool_name \notin Simple_tools
    THEN {[error |-> <<"Unknown tool", tool_name>>]}
    ELSE IF DOMAIN kwargs \cap {"properties", "type", "required"} # {}
    THEN {[error |-> <<"LLM passed tool schema instead of parameters">>,
           suggestion |-> tool_name]}
    ELSE CASE tool_name = "search_courses_by_category" ->
                IF ~Binds(kwargs, {"category"}, {"limit"})
                THEN {execute_tool_caught(TypeError(kwargs))}
                ELSE Simple_search_tool(kwargs.category,
                                        Arg(kwargs, "limit", 10))
           [] tool_name = "filter_healthy_courses" ->
                IF ~Binds(kwargs, {}, {"max_fsa_score", "category", "limit"})
                THEN {execute_tool_caught(TypeError(kwargs))}
                ELSE Simple_filter_tool(Arg(kwargs, "max_fsa_score", 5),
                                        Arg(kwargs, "category", None),
                                        Arg(kwargs, "limit", 10))
           [] tool_name = "generate_meal_plan" ->
                IF ~Binds(kwargs, {}, {"goal", "num_meals"})
                THEN {execute_tool_caught(TypeError(kwargs))}
                ELSE Simple_generate_meal_plan(Arg(kwargs, "goal", "balanced"),
                                               Arg(kwargs, "num_meals", 3))

----------------------------------------------------------------------------
(* The dispatch specification: a small dataset (up to MaxCourses courses,   *)
(* an fsa file of at most one line, at most one meal, an index table with   *)
(* at most one external id, at most one user-course pair) and the two       *)
(* dispatch functions called with registered and unregistered names, with   *)
(* well-formed keyword arguments and with malformed ones.                   *)

NoKwargs == [k \in {} |-> None]
Malformed == {NoKwargs, [bogus |-> 1]}

GoalArgs ==
    [health_focus : {None, Some("weight_loss")},
     max_avg_health_score : {None},
     include_categories : {None, Some(<<"snack">>), Some(<<"main">>)}]

KwargsOf(tool_name) ==
    CASE tool_name = "filter_courses" ->
           {[criteria |-> c] : c \in {x \in CriteriaArgs :
                /\ x.category \in {None, Some("main")}
                /\ IsNone(x.max_who_score) /\ IsNone(x.limit)}}
      [] tool_name = "search_courses_by_category" ->
           {[category |-> c] : c \in {"main", "snack"}}
             \cup {[category |-> "main", limit |-> 1]}
      [] tool_name = "find_healthy_courses" ->
           {[max_fsa_score |-> 4],
            [max_fsa_score |-> 8, category |-> Some("main"), limit |-> 1]}
      [] tool_name = "generate_meal_plan" -> {[goal |-> g] : g \in GoalArgs}
      [] tool_name = "get_meal_composition" ->
           {[meal_id |-> m] : m \in {1, 2}}
      [] tool_name = "calculate_health_score" ->
           {[item_id |-> 1, score_type |-> s] : s \in {"fsa", "sugar"}}
             \cup {[item_id |-> 1, score_type |-> s, item_type |-> t] :
                     s \in {"fsa", "sugar"}, t \in ItemTypeArgs}
      [] tool_name = "swap_for_healthier" ->
           {[course_id |-> c] : c \in {0, 1, 7}}
             \cup {[course_id |-> c, improvement_threshold |-> 2] :
                     c \in {0, 1, 7}}
      [] tool_name = "get_user_history" -> {[user_id |-> u] : u \in {1, 2}}
      [] tool_name = "summarize_recipe" ->
           {[course_id |-> c] : c \in {0, 1, 7}}
      [] tool_name = "recommend_similar_meals" ->
           {[course_id |-> c] : c \in {0, 1, 7}}
             \cup {[course_id |-> 1, limit |-> 0]}
      [] OTHER -> {}

SimpleKwargsOf(tool_name) ==
    CASE tool_name = "search_courses_by_category" ->
           {[category |-> "main"], [category |-> "main", limit |-> 1],
            [type |-> "object"]}
      [] tool_name = "filter_healthy_courses" ->
           {NoKwargs, [max_fsa_score |-> 4, category |-> Some("main")]}
      [] tool_name = "generate_meal_plan" ->
           {[num_meals |-> 1], [goal |-> "healthy", num_meals |-> 1]}
      [] OTHER -> {}

InitDispatch ==
    /\ course_categories \in
          AscendingDicts(CourseIdx, DataCategories, MaxCourses)
    /\ course_fsa_scores \in Lists({4}, 1)
    /\ course_who_scores = <<>>
    /\ meal_course_mapping \in
          {<<>>} \cup {<< <<1, l>> >> : l \in {<<0>>, <<0, 1>>}}
    /\ course_to_index \in IndexTables({0})
    /\ user_course_interactions \in {<<>>, << <<1, 0>> >>}
    /\ user_meal_interactions = _load_user_meal_interactions(
                                    <<MissingFile, MissingFile, MissingFile>>)
    /\ Constructed

(* the signature of a registered tool: required and optional keywords *)
Signature(tool_name) ==
    CASE tool_name = "filter_courses" -> <<{"criteria"}, {}>>
      [] tool_name = "search_courses_by_category" -> <<{"category"}, {"limit"}>>
      [] tool_name = "find_healthy_courses" ->
           <<{"max_fsa_score"}, {"category", "limit"}>>
      [] tool_name = "generate_meal_plan" -> <<{"goal"}, {}>>
      [] tool_name = "get_meal_composition" -> <<{"meal_id"}, {}>>
      [] tool_name = "calculate_health_score" ->
           <<{"item_id", "score_type"}, {"item_type"}>>
      [] tool_name = "swap_for_healthier" ->
           <<{"course_id"}, {"improvement_threshold"}>>
      [] tool_name = "get_user_history" -> <<{"user_id"}, {}>>
      [] tool_name = "summarize_recipe" -> <<{"course_id"}, {}>>
      [] tool_name = "recommend_similar_meals" -> <<{"course_id"}, {"limit"}>>

WellFormed(tool_name, kwargs) ==
    Binds(kwargs, Signature(tool_name)[1], Signature(tool_name)[2])

(* what the method of that name of MealPlanningTools (src/tools.py) returns *)
MethodOf(tool_name, kwargs) ==
    CASE tool_name = "filter_courses" -> filter_courses(kwargs.criteria)
      [] tool_name = "search_courses_by_category" ->
           search_courses_by_category(kwargs.category,
                                      Arg(kwargs, "limit", DefaultLimit))
      [] tool_name = "find_healthy_courses" ->
           find_healthy_courses(kwargs.max_fsa_score,
                                Arg(kwargs, "category", None),
                                Arg(kwargs, "limit", DefaultLimit))
      [] tool_name = "generate_meal_plan" -> generate_meal_plan(kwargs.goal)
      [] tool_name = "get_meal_composition" ->
           get_meal_composition(kwargs.meal_id)
      [] tool_name = "calculate_health_score" ->
           calculate_health_score(kwargs.item_id, kwargs.score_type,
                                  Arg(kwargs, "item_type", "course"))
      [] tool_name = "swap_for_healthier" ->
           swap_for_healthier(kwargs.course_id,
                              Arg(kwargs, "improvement_threshold", 1))
      [] tool_name = "get_user_history" -> get_user_history(kwargs.user_id)
      [] tool_name = "summarize_recipe" -> summarize_recipe(kwargs.course_id)
      [] tool_name = "recommend_similar_meals" ->
           recommend_similar_meals(kwargs.course_id, Arg(kwargs, "limit", 5))

(* ToolRegistry.execute_tool; call[4] is the tool whose execute was invoked *)
ExecuteTool ==
    \E tool_name \in ToolNames \cup {"get_recipe"} :
      \E kwargs \in KwargsOf(tool_name) \cup Malformed :
        Returns(<<"execute_tool", tool_name, kwargs,
                  ToolRegistry_get_tool(tool_name)>>,
                ToolRegistry_execute_tool(tool_name, kwargs))

(* execute_tool of the simple variant; call[4] is the tool function invoked *)
SimpleExecuteTool ==
    \E tool_name \in Simple_tools \cup {"get_recipe"} :
      \E kwargs \in SimpleKwargsOf(tool_name) \cup Malformed :
        \E r \in Simple_execute_tool(tool_name, kwargs) :
          Returns(<<"simple_execute_tool", tool_name, kwargs,
                    IF tool_name \in Simple_tools
                         /\ DOMAIN kwargs \cap {"properties", "type", "required"} = {}
                    THEN Some(tool_name) ELSE None>>,
                  r)

(* the chatbot of src/agent.py calls the method of MealPlanningTools of that *)
(* name with the keyword arguments the schema asks for                      *)
CallMethod ==
    \E tool_name \in ToolNames :
      \E kwargs \in {k \in KwargsOf(tool_name) : WellFormed(tool_name, k)} :
        Returns(<<"method", tool_name, kwargs>>, MethodOf(tool_name, kwargs))

NextDispatch ==
    \/ TakeResult
    \/ ExecuteTool
    \/ SimpleExecuteTool
    \/ CallMethod
    \/ RetrieveRecipes

SpecDispatch == InitDispatch /\ [][NextDispatch]_vars

IsDispatch == Op \in {"execute_tool", "simple_execute_tool"}
Registered == IF Op = "execute_tool" THEN ToolNames ELSE Simple_tools

(* no exception reaches the caller, an unregistered name gives the          *)
(* "Unknown tool" error and invokes nothing, and an exception of a tool     *)
(* gives the "Tool execution failed" error                                  *)
DispatchCatches ==
    IsDispatch =>
        /\ "raise" \notin DOMAIN result
        /\ call[2] \notin Registered =>
              /\ result = [error |-> <<"Unknown tool", call[2]>>]
              /\ IsNone(call[4])
        /\ (Op = "execute_tool" /\ call[2] \in ToolNames
              /\ "raise" \in DOMAIN Tool_execute(call[2], call[3])) =>
              /\ HasError
              /\ result.error[1] = "Tool execution failed"

(* C11: execute_tool never lets an exception reach its caller: an           *)
(* unregistered name returns the error "Unknown tool: <name>" without       *)
(* invoking any operation, an operation that raises returns the error       *)
(* "Tool execution failed: <detail>", and every result is a mapping, either *)
(* a success payload or one with an "error" key (never None).               *)
C11_DispatchAlwaysReturnsMapping ==
    /\ DispatchCatches
    /\ IsDispatch => result # ReturnsNone

(* C12: for a registered name and well-formed keyword arguments             *)
(* ToolRegistry.execute_tool returns what the method of the same name of    *)
(* MealPlanningTools returns on the same database.                          *)
C12_RegistryReturnsMethodPayload ==
    (Op = "execute_tool" /\ call[2] \in ToolNames
        /\ WellFormed(call[2], call[3])) =>
        result = MethodOf(call[2], call[3])

----------------------------------------------------------------------------
(* The meal specification: courses of one category with fsa scores 4 and 6  *)
(* (default 8) and who score 5 (default 7), and at most one meal, number 1, *)
(* of up to MaxCourses + 1 course entries; an entry may repeat and may not  *)
(* be in the index. Two courses of fsa 4 and one of fsa 6 average 4.67.     *)


MealCourseLists == Lists(MealEntries, MaxCourses + 1) \ {<<>>}
MealIds == {1, 2}

InitMeal ==
    /\ course_categories \in AscendingDicts(CourseIdx, {1}, MaxCourses)
    /\ course_fsa_scores \in {<<>>} \cup [1..MaxCourses -> FsaVals]
    /\ course_who_scores \in Lists(WhoVals, 1)
    /\ meal_course_mapping \in
           {<<>>} \cup {<< <<1, l>> >> : l \in MealCourseLists}
    /\ course_to_index = <<>>
    /\ user_course_interactions = <<>>
    /\ user_meal_interactions = _load_user_meal_interactions(
                                    <<MissingFile, MissingFile, MissingFile>>)
    /\ Constructed

GetMealComposition ==
    \E meal_id \in MealIds :
        Returns(<<"get_meal_composition", meal_id>>,
                get_meal_composition(meal_id))

NextMeal ==
    \/ TakeResult
    \/ GetMealComposition
    \/ CalculateHealthScore

SpecMeal == InitMeal /\ [][NextMeal]_vars

(* what the tables say about a meal and its courses *)
Indexed(idx) == idx \in Keys(course_categories)
StoredCourses(meal_id) == Lookup(meal_course_mapping, meal_id)
StoredIndexed(meal_id) ==
    SelectFrom(StoredCourses(meal_id),
               [i \in DOMAIN StoredCourses(meal_id) |->
                    Indexed(StoredCourses(meal_id)[i])])
TableFsa(idx) == ScoreGet(course_fsa_scores, idx, DefaultFsa)
TableWho(idx) == ScoreGet(course_who_scores, idx, DefaultWho)
(* twice the score of a course for a score type, an integer *)
TwiceScore(idx, score_type) ==
    CASE score_type = "fsa" -> 2 * TableFsa(idx)
      [] score_type = "who" -> 2 * TableWho(idx)
      [] score_type = "combined" -> TableFsa(idx) + TableWho(idx)
SameNumber(x, y) == x.n * y.d = y.n * x.d


(* C13: get_meal_composition returns an error exactly when meal_id is not a *)
(* key of the meal table; otherwise its courses are the entries of the      *)
(* meal's stored course list that are in the recipe index, in stored order  *)
(* and with multiplicity, course_count is their number, and the fsa and who *)
(* averages are the means of their scores rounded to two decimals (0 when   *)
(* no entry is in the index).                                               *)
C13_MealCompositionListsIndexedCourses ==
    Op = "get_meal_composition" =>
        LET meal_id == call[2] IN
        /\ HasError <=> ~HasKey(meal_course_mapping, meal_id)
        /\ ~HasError =>
            LET expected == StoredIndexed(meal_id)
                n == Len(expected)
            IN  /\ [i \in DOMAIN result.courses |->
                        result.courses[i].course_index] = expected
                /\ \A i \in DOMAIN result.courses :
                      /\ result.courses[i].fsa_score = TableFsa(expected[i])
                      /\ result.courses[i].who_score = TableWho(expected[i])
                /\ result.course_count = n
                /\ n > 0 =>
                      /\ result.average_scores.fsa = Round2(Frac(
                            SumSeq([i \in 1..n |-> TableFsa(expected[i])]), n))
                      /\ result.average_scores.who = Round2(Frac(
                            SumSeq([i \in 1..n |-> TableWho(expected[i])]), n))
                /\ n = 0 =>
                      /\ result.average_scores.fsa.n = 0
                      /\ result.average_scores.who.n = 0

(* C13 witness: a meal of three stored entries, one of them not in the      *)
(* index and the other two the same course, is returned with two courses    *)
C13_Witness ==
    /\ Op = "get_meal_composition"
    /\ ~HasError
    /\ Len(StoredCourses(call[2])) = 3
    /\ result.course_count = 2
    /\ result.courses[1].course_index = result.courses[2].course_index

(* C14: for valid enumerations, calculate_health_score of a meal returns    *)
(* the mean, rounded to two decimals, of the per-course score (fsa, who or  *)
(* (fsa + who) / 2) over the meal's indexed entries, and their number as    *)
(* course_count; it returns an error exactly when the meal is unknown or    *)
(* none of its entries is in the index. For a course it returns the score   *)
(* of that course, and an error exactly when the course is not in the       *)
(* index.                                                                   *)
C14_HealthScoreIsMeanOverIndexedCourses ==
    (Op = "calculate_health_score" /\ call[3] \in ScoreTypes) =>
        LET item_id == call[2]
            score_type == call[3]
        IN  /\ call[4] = "meal" =>
                LET known == HasKey(meal_course_mapping, item_id)
                    expected == IF known THEN StoredIndexed(item_id) ELSE <<>>
                    n == Len(expected)
                IN  /\ HasError <=> (~known \/ n = 0)
                    /\ ~HasError =>
                        /\ result.course_count = n
                        /\ result.score = Round2(Frac(
                              SumSeq([i \in 1..n |->
                                        TwiceScore(expected[i], score_type)]),
                              2 * n))
            /\ call[4] = "course" =>
                /\ HasError <=> ~Indexed(item_id)
                /\ ~HasError =>
                      SameNumber(result.score,
                                 Frac(TwiceScore(item_id, score_type), 2))

(* C14 witness: the combined score of a meal of three indexed entries whose *)
(* mean is not a multiple of 1/100                                          *)
C14_Witness ==
    /\ Op = "calculate_health_score"
    /\ call[3] = "combined"
    /\ call[4] = "meal"
    /\ ~HasError
    /\ result.course_count = 3
    /\ result.score.n % 50 # 0

----------------------------------------------------------------------------
(* The similar-meals specification: up to MaxOthers + 1 courses of two      *)
(* categories, fsa scores 5 and 3 for the first two courses and the default *)
(* 8 for the others, no, one or two meals (numbers 1 and 2) of one or two   *)
(* course entries, the entry MaxOthers + 1 never in the index, and an index *)
(* table that maps the external id 7 to course 1.                           *)

DefaultSimilarLimit == 5

SimilarMealLists ==
    {l \in Lists(0..(MaxOthers + 1), 2) \ {<<>>} :
        \A i, j \in DOMAIN l : i < j => l[i] <= l[j]}
SimilarMealTables ==
    {<<>>} \cup {<< <<1, l>> >> : l \in SimilarMealLists}
           \cup {<< <<1, l>>, <<2, k>> >> : l, k \in SimilarMealLists}
SimilarCourseArgs == SwapIdx \cup {7}

InitSimilar ==
    /\ course_categories \in
           AscendingDicts(SwapIdx, DataCategories, MaxOthers + 1)
    /\ course_fsa_scores = <<5, 3>>
    /\ course_who_scores = <<>>
    /\ meal_course_mapping \in SimilarMealTables
    /\ course_to_index = << <<7, 1>> >>
    /\ user_course_interactions = <<>>
    /\ user_meal_interactions = _load_user_meal_interactions(
                                    <<MissingFile, MissingFile, MissingFile>>)
    /\ Constructed

RecommendSimilarMeals ==
    \E course_id \in SimilarCourseArgs, limit \in LimitArgs :
        LET l == IF IsNone(limit) THEN DefaultSimilarLimit ELSE Val(limit)
        IN  Returns(<<"recommend_similar_meals", course_id, l>>,
                    recommend_similar_meals(course_id, l))

NextSimilar ==
    \/ TakeResult
    \/ RecommendSimilarMeals

SpecSimilar == InitSimilar /\ [][NextSimilar]_vars

(* the reference course of the call, and what the tables say about a meal *)
ReferenceIdx ==
    IF HasKey(course_to_index, call[2]) THEN Lookup(course_to_index, call[2])
    ELSE call[2]
MealIdSet == Keys(meal_course_mapping)
ContainsCourse(meal_id, idx) == idx \in Range(StoredCourses(meal_id))
HasCourseOfCategory(meal_id, category) ==
    \E i \in DOMAIN StoredCourses(meal_id) :
        /\ Indexed(StoredCourses(meal_id)[i])
        /\ Lookup(course_categories, StoredCourses(meal_id)[i]) = category
SimilarTo(idx) ==
    {m \in MealIdSet :
        /\ ~ContainsCourse(m, idx)
        /\ HasCourseOfCategory(m, Lookup(course_categories, idx))}
(* the mean fsa score of the indexed entries of a meal, as a fraction *)
MeanFsa(meal_id) ==
    LET present == StoredIndexed(meal_id)
    IN  Frac(SumSeq([i \in DOMAIN present |-> TableFsa(present[i])]),
             Len(present))
FracLess(x, y) == x.n * y.d < y.n * x.d
Min(a, b) == IF a <= b THEN a ELSE b

----------------------------------------------------------------------------
(* The meal-plan specification: up to MaxOthers + 1 courses of two          *)
(* categories, fsa scores 5 and 7 (default 8), who score 4 for the first    *)
(* course or the default 7 for all, so that a course of fsa 7 can have a    *)
(* smaller fsa + who than a course of fsa 5; goals with every focus, an     *)
(* unknown focus, no focus, a maximum of 0 or 6 or none, and category lists *)
(* that are absent, empty, repeat a name or hold an unknown name.           *)

PlanFocusArgs ==
    {None, Some("weight_loss"), Some("heart_healthy"), Some("low_sodium"),
     Some("balanced"), Some("keto")}
PlanMaxArgs == {None, Some(0), Some(6)}
PlanCategoryArgs ==
    {None, Some(<<>>), Some(<<"main">>), Some(<<"main", "appetizer">>),
     Some(<<"snack", "dessert">>), Some(<<"main", "main">>)}
PlanGoals ==
    [health_focus : PlanFocusArgs, max_avg_health_score : PlanMaxArgs,
     include_categories : PlanCategoryArgs]

InitPlan ==
    /\ course_categories \in
           AscendingDicts(SwapIdx, DataCategories, MaxOthers + 1)
    /\ course_fsa_scores \in Lists({5, 7}, MaxOthers + 1)
    /\ course_who_scores \in {<<>>, <<4>>}
    /\ meal_course_mapping = <<>>
    /\ course_to_index = <<>>
    /\ user_course_interactions = <<>>
    /\ user_meal_interactions = _load_user_meal_interactions(
                                    <<MissingFile, MissingFile, MissingFile>>)
    /\ Constructed

GenerateMealPlan ==
    \E goal \in PlanGoals :
        Returns(<<"generate_meal_plan", goal>>, generate_meal_plan(goal))

NextPlan ==
    \/ TakeResult
    \/ GenerateMealPlan

SpecPlan == InitPlan /\ [][NextPlan]_vars

(* what the goal of the call asks for *)
PlanGoal == call[2]
FocusThreshold ==
    LET focus == IF IsNone(PlanGoal.health_focus) THEN "balanced"
                 ELSE Val(PlanGoal.health_focus)
    IN  CASE focus = "weight_loss" -> 5
          [] focus = "heart_healthy" -> 6
          [] focus = "low_sodium" -> 7
          [] OTHER -> 8
SuppliedMaximum ==
    /\ ~IsNone(PlanGoal.max_avg_health_score)
    /\ Val(PlanGoal.max_avg_health_score) # 0
RequestedCategories ==
    IF IsNone(PlanGoal.include_categories)
    THEN {"appetizer", "main", "dessert"}
    ELSE Range(Val(PlanGoal.include_categories))
CategoryNumber(name) ==
    CASE name = "appetizer" -> 0 [] name = "main" -> 1 [] name = "dessert" -> 2
QualifyingFor(name, threshold) ==
    {idx \in Keys(course_categories) :
        /\ Lookup(course_categories, idx) = CategoryNumber(name)
        /\ TableFsa(idx) <= threshold}
PlanEntry(name) == Lookup(result.meal_plan, name)

(* the plan of the result is the plan for the threshold *)
PlanIsFor(threshold) ==
    /\ \A name \in ValidCategoryNames \cup {"snack"} :
          HasKey(result.meal_plan, name) <=>
              /\ name \in RequestedCategories
              /\ name \in ValidCategoryNames
              /\ QualifyingFor(name, threshold) # {}
    /\ \A name \in Keys(result.meal_plan) :
          LET chosen == PlanEntry(name).course_index
          IN  /\ chosen \in QualifyingFor(name, threshold)
              /\ \A idx \in QualifyingFor(name, threshold) :
                    TableFsa(chosen) + TableWho(chosen)
                        <= TableFsa(idx) + TableWho(idx)
              /\ PlanEntry(name).fsa_score = TableFsa(chosen)
              /\ PlanEntry(name).who_score = TableWho(chosen)

PlanCountsAndAverages ==
    LET entries == result.meal_plan
        n == Len(entries)
    IN  /\ result.courses_included = n
        /\ n = Cardinality(Keys(entries))
        /\ n > 0 =>
              /\ result.average_fsa_score = Round2(Frac(
                    SumSeq([i \in 1..n |-> entries[i][2].fsa_score]), n))
              /\ result.average_who_score = Round2(Frac(
                    SumSeq([i \in 1..n |-> entries[i][2].who_score]), n))
        /\ n = 0 =>
              /\ result.average_fsa_score.n = 0
              /\ result.average_who_score.n = 0

(* C16 as stated: generate_meal_plan has an entry for a requested category  *)
(* exactly when the category is valid and some indexed course of it has fsa *)
(* <= the threshold of the health focus (weight_loss 5, heart_healthy 6,    *)
(* low_sodium 7, balanced or unknown 8); the entry has minimal fsa + who    *)
(* among those; courses_included counts the entries and the averages are    *)
(* over the entries (0 when the plan is empty).                             *)
C16_PlanUnderFocusThreshold ==
    Op = "generate_meal_plan" =>
        /\ PlanIsFor(FocusThreshold)
        /\ PlanCountsAndAverages

(* C16 amended: the same with the threshold being max_avg_health_score when *)
(* the goal supplies one that is not 0, and the threshold of the health     *)
(* focus otherwise.                                                         *)
C16_PlanUnderSuppliedOrFocusThreshold ==
    Op = "generate_meal_plan" =>
        /\ PlanIsFor(IF SuppliedMaximum
                     THEN Val(PlanGoal.max_avg_health_score)
                     ELSE FocusThreshold)
        /\ PlanCountsAndAverages

(* C16 witness: the goal supplies the maximum 6 with the balanced focus; a  *)
(* main course of fsa 7 is passed over although it has the smaller fsa +    *)
(* who, and the plan has two entries                                        *)
C16_Witness ==
    /\ Op = "generate_meal_plan"
    /\ PlanGoal.max_avg_health_score = Some(6)
    /\ PlanGoal.health_focus = Some("balanced")
    /\ result.courses_included = 2
    /\ HasKey(result.meal_plan, "main")
    /\ \E idx \in QualifyingFor("main", 8) :
          /\ TableFsa(idx) = 7
          /\ TableFsa(idx) + TableWho(idx)
                < PlanEntry("main").fsa_score + PlanEntry("main").who_score

----------------------------------------------------------------------------
(* The user specification: MaxOthers + 1 courses, each of any of the three  *)
(* categories, up to MaxLines user-course pairs of users 1 and 2 whose      *)
(* course may be MaxOthers + 1, which is not in the index, and user-meal    *)
(* splits that are empty or hold pairs of users 1 and 2 in one or two of    *)
(* the splits. User 3 has no pair anywhere.                                 *)

UserIds == {1, 2, 3}
UserCoursePairs == {1, 2} \X (0..(MaxOthers + 1))
CategoryRows ==
    {[i \in 1..(MaxOthers + 1) |-> <<i - 1, f[i]>>] :
        f \in [1..(MaxOthers + 1) -> Categories]}
UserMealSplits ==
    {<< <<"train", <<>> >>, <<"test", <<>> >>, <<"tune", <<>> >> >>,
     << <<"train", << <<1, 5>> >> >>, <<"test", <<>> >>, <<"tune", <<>> >> >>,
     << <<"train", <<>> >>, <<"test", <<>> >>, <<"tune", << <<2, 5>> >> >> >>,
     << <<"train", << <<1, 5>>, <<2, 6>> >> >>, <<"test", << <<1, 5>> >> >>,
        <<"tune", <<>> >> >>}

InitUser ==
    /\ course_categories \in CategoryRows
    /\ course_fsa_scores = <<>>
    /\ course_who_scores = <<>>
    /\ meal_course_mapping = <<>>
    /\ course_to_index = <<>>
    /\ user_course_interactions \in Lists(UserCoursePairs, MaxLines)
    /\ user_meal_interactions \in UserMealSplits
    /\ Constructed

GetUserHistory ==
    \E user_id \in UserIds :
        Returns(<<"get_user_history", user_id>>, get_user_history(user_id))

NextUser ==
    \/ TakeResult
    \/ GetUserHistory

SpecUser == InitUser /\ [][NextUser]_vars

(* the pairs of the user of the call *)
CoursePairsOf(user_id) ==
    {i \in DOMAIN user_course_interactions :
        user_course_interactions[i][1] = user_id}
MealPairsIn(split, user_id) ==
    {i \in DOMAIN Lookup(user_meal_interactions, split) :
        Lookup(user_meal_interactions, split)[i][1] = user_id}
MealPairCount(user_id) ==
    Cardinality(MealPairsIn("train", user_id))
        + Cardinality(MealPairsIn("test", user_id))
        + Cardinality(MealPairsIn("tune", user_id))
(* the user's interactions with an indexed course of a category *)
CategoryCount(user_id, name) ==
    Cardinality({i \in CoursePairsOf(user_id) :
        /\ Indexed(user_course_interactions[i][2])
        /\ Lookup(course_categories, user_course_interactions[i][2])
               = CategoryNumber(name)})
CategoryOrder == <<"appetizer", "main", "dessert">>


(* C17: get_user_history returns the error "No history found for user      *)
(* <id>" exactly when the user has no pair in the user-course interactions  *)
(* and no pair in any of the train, test and tune splits; otherwise         *)
(* total_courses is the number of the user's course pairs and total_meals   *)
(* the number of the user's meal pairs summed over the three splits.        *)
C17_NoHistoryIffNoPair ==
    Op = "get_user_history" =>
        LET user_id == call[2] IN
        /\ HasError <=>
              (CoursePairsOf(user_id) = {} /\ MealPairCount(user_id) = 0)
        /\ HasError => result = [error |-> <<"No history found for user", user_id>>]
        /\ ~HasError =>
              /\ result.total_courses = Cardinality(CoursePairsOf(user_id))
              /\ result.total_meals = MealPairCount(user_id)

(* C17 witness: a user without course pairs whose only meal pair is in the  *)
(* tune split has a history                                                 *)
C17_Witness ==
    /\ Op = "get_user_history"
    /\ ~HasError
    /\ result.total_courses = 0
    /\ result.total_meals = 1
    /\ MealPairsIn("tune", call[2]) # {}

----------------------------------------------------------------------------
(* The health rating bands, over the dispatch specification *)

(* the bands every rating is said to follow *)
Band(score) ==
    IF score.n <= 4 * score.d THEN "excellent"
    ELSE IF score.n <= 6 * score.d THEN "very good"
    ELSE IF score.n <= 8 * score.d THEN "good"
    ELSE IF score.n <= 10 * score.d THEN "fair"
    ELSE "poor"

(* the mean fsa score of the indexed courses of a user's interactions and   *)
(* of a meal's entries, 0 when there is none                                *)
UserMeanFsa(user_id) ==
    LET present == {i \in CoursePairsOf(user_id) :
                       Indexed(user_course_interactions[i][2])}
        fsa == [i \in DOMAIN user_course_interactions |->
                   IF i \in present
                   THEN TableFsa(user_course_interactions[i][2]) ELSE 0]
    IN  IF present = {} THEN Frac(0, 1)
        ELSE Frac(SumSeq(fsa), Cardinality(present))
MealMeanFsa(meal_id) ==
    IF StoredIndexed(meal_id) = <<>> THEN Frac(0, 1) ELSE MeanFsa(meal_id)

RatingOps == {"calculate_health_score", "get_meal_composition",
              "get_user_history", "summarize_recipe"}
(* a result of the modular variant or of MealPlanningTools with a rating *)
RendersRating ==
    /\ Op \in {"execute_tool", "method"}
    /\ call[2] \in RatingOps
    /\ DOMAIN result \cap {"health_rating", "health_preference"} # {}
(* a result of generate_meal_plan of the simple variant *)
SimpleRendersRating ==
    /\ Op = "simple_execute_tool"
    /\ call[2] = "generate_meal_plan"
    /\ "health_rating" \in DOMAIN result
(* the score the rating is rendered from *)
RatedScore ==
    CASE call[2] = "calculate_health_score" ->
           IF "individual_scores" \in DOMAIN result
           THEN MeanOf(result.individual_scores) ELSE result.score
      [] call[2] = "get_meal_composition" -> MealMeanFsa(call[3].meal_id)
      [] call[2] = "get_user_history" -> UserMeanFsa(call[3].user_id)
      [] call[2] = "summarize_recipe" -> Frac(result.scores.fsa, 1)
RenderedRating ==
    IF "health_preference" \in DOMAIN result THEN result.health_preference
    ELSE result.health_rating

(* the operations of MealPlanningTools and of the modular variant follow    *)
(* the bands                                                                *)
SharedBands == RendersRating => RenderedRating = Band(RatedScore)

(* C19: every operation that renders a qualitative health rating from a     *)
(* score uses the bands <= 4 excellent, <= 6 very good, <= 8 good, <= 10    *)
(* fair, otherwise poor: calculate_health_score, get_meal_composition,      *)
(* get_user_history, summarize_recipe, and the health_rating of             *)
(* generate_meal_plan of the simple variant.                                *)
C19_SameBandsEverywhere ==
    /\ SharedBands
    /\ SimpleRendersRating => result.health_rating = Band(result.avg_fsa)

----------------------------------------------------------------------------
(* The recipe index after construction, over the filter specification *)

(* the max_fsa_score the call passes, None when it passes none *)
FsaBoundOfCall ==
    CASE Op = "filter_courses" -> call[2].max_fsa_score
      [] Op = "find_healthy_courses" -> Some(call[2])
      [] Op = "retrieve_recipes" -> call[3]
      [] OTHER -> None
(* a course without a line in the fsa score file *)
DefaultedFsa(idx) == idx + 1 \notin DOMAIN course_fsa_scores

(* C20: after construction the recipe index has exactly one record per      *)
(* course index of the category table and none for another index; the fsa   *)
(* score of a record is the value of the fsa table for the index, or 8 when *)
(* it has none, and the who score the value of the who table, or 7; a       *)
(* course whose fsa score is the default 8 is in no result of a filter      *)
(* called with max_fsa_score < 8.                                           *)
C20_IndexCoversCategoryTable ==
    /\ \A p \in DOMAIN recipes_db :
          recipes_db[p][1] \in Keys(course_categories)
    /\ \A idx \in Keys(course_categories) :
          Cardinality({p \in DOMAIN recipes_db : recipes_db[p][1] = idx}) = 1
    /\ \A p \in DOMAIN recipes_db :
          LET idx == recipes_db[p][1]
              record == recipes_db[p][2]
          IN  /\ record.course_index = idx
              /\ record.category = Lookup(course_categories, idx)
              /\ record.fsa_health_score =
                    IF idx + 1 \in DOMAIN course_fsa_scores
                    THEN course_fsa_scores[idx + 1] ELSE 8
              /\ record.who_health_score =
                    IF idx + 1 \in DOMAIN course_who_scores
                    THEN course_who_scores[idx + 1] ELSE 7
    /\ (ReturnsList /\ ~IsNone(FsaBoundOfCall) /\ Val(FsaBoundOfCall) < 8) =>
          \A idx \in ReturnedIdx : ~DefaultedFsa(idx)

(* C20 witness: find_healthy_courses with max_fsa_score 4 and no category   *)
(* returns a course while the index holds another course whose fsa score is *)
(* the default                                                              *)
C20_Witness ==
    /\ Op = "find_healthy_courses"
    /\ call[2] = 4
    /\ IsNone(call[3])
    /\ ReturnedIdx # {}
    /\ \E idx \in Keys(recipes_db) :
          /\ DefaultedFsa(idx)
          /\ RecipeOf(idx).fsa_health_score = 8
          /\ idx \notin ReturnedIdx

----------------------------------------------------------------------------
(* The meal affiliations of the recipe index, over the similar-meals        *)
(* specification (up to two meals, a meal may list a course twice)          *)

(* C21: for every course c of the recipe index and every meal m of the meal *)
(* table, m is in c.meal_affiliations exactly when the course list of m     *)
(* contains the index of c, and m is there at most once even when the meal  *)
(* lists the course several times.                                          *)
C21_AffiliationsAreContainingMeals ==
    \A p \in DOMAIN recipes_db :
        LET c == recipes_db[p][1]
            affiliations == recipes_db[p][2].meal_affiliations
        IN  /\ \A m \in Keys(meal_course_mapping) :
                  m \in Range(affiliations) <=>
                      c \in Range(Lookup(meal_course_mapping, m))
            /\ Range(affiliations) \subseteq Keys(meal_course_mapping)
            /\ \A i, j \in DOMAIN affiliations :
                  i # j => affiliations[i] # affiliations[j]

(* C21 witness: meal 1 lists course 1 twice and meal 2 does not list it;    *)
(* the affiliations of course 1 are meal 1, once                            *)
C21_Witness ==
    /\ HasKey(meal_course_mapping, 1)
    /\ HasKey(meal_course_mapping, 2)
    /\ Lookup(meal_course_mapping, 1) = <<1, 1>>
    /\ 1 \notin Range(Lookup(meal_course_mapping, 2))
    /\ InRecipes(1)
    /\ RecipeOf(1).meal_affiliations = <<1>>

----------------------------------------------------------------------------
(* The identifier specification: MaxCourses main courses, all in the index, *)
(* of fsa scores 4, 6 and the default 8, and an index table of up to        *)
(* MaxLines entries that map the external ids 1 and 7 to course indices, so *)
(* that two ids can map to one index and the id 1 can be the index of       *)
(* another course. A list operation is followed by an operation that is     *)
(* passed the course_id of one of the returned entries.                     *)

ExternalIds == {1, 7}
IdCategoryRow == [i \in 1..MaxCourses |-> <<i - 1, 1>>]
FollowUpOps == {"calculate_health_score", "summarize_recipe",
                "swap_for_healthier", "recommend_similar_meals"}

InitIds ==
    /\ course_categories = IdCategoryRow
    /\ course_fsa_scores = <<4, 6>>
    /\ course_who_scores = <<>>
    /\ meal_course_mapping = <<>>
    /\ course_to_index \in Dicts(ExternalIds, CourseIdx, MaxLines)
    /\ user_course_interactions = <<>>
    /\ user_meal_interactions = _load_user_meal_interactions(
                                    <<MissingFile, MissingFile, MissingFile>>)
    /\ Constructed

SummarizeRecipe ==
    \E course_id \in CourseIdx \cup ExternalIds :
        Returns(<<"summarize_recipe", course_id>>, summarize_recipe(course_id))

(* the next tool call passes the course_id of an entry of the list the last *)
(* call returned; call[3] is that entry, and call[4] is the index at which  *)
(* the operation reads the recipe index: item_id itself in                  *)
(* calculate_health_score, the converted course_id in the other three       *)
FollowUp ==
    /\ pc = "ready"
    /\ call # Idle
    /\ call[1] \in {"filter_courses", "search_courses_by_category",
                    "find_healthy_courses"}
    /\ "courses" \in DOMAIN result
    /\ \E i \in DOMAIN result.courses, op \in FollowUpOps :
          LET entry == result.courses[i]
              course_id == entry.course_id
          IN  /\ call' = <<"follow_up", op, entry,
                           IF op = "calculate_health_score" THEN course_id
                           ELSE convert_course_id_to_index(course_id)>>
              /\ result' =
                    CASE op = "calculate_health_score" ->
                           calculate_health_score(course_id, "fsa", "course")
                      [] op = "summarize_recipe" -> summarize_recipe(course_id)
                      [] op = "swap_for_healthier" ->
                           swap_for_healthier(course_id, 1)
                      [] op = "recommend_similar_meals" ->
                           recommend_similar_meals(course_id,
                                                   DefaultSimilarLimit)
    /\ UNCHANGED <<tables, pc, files, chatbot>>

NextIds ==
    \/ TakeResult
    \/ FilterCourses
    \/ SearchCoursesByCategory
    \/ FindHealthyCourses
    \/ SummarizeRecipe
    \/ FollowUp

SpecIds == InitIds /\ [][NextIds]_vars

(* summarize_recipe resolves its course_id to an index and reports the id   *)
(* the index maps back to                                                   *)
ResolvesTableId ==
    /\ Op = "summarize_recipe"
    /\ HasKey(course_to_index, call[2])
    /\ ~HasError
SharesIndex(course_id) ==
    \E other \in Keys(course_to_index) :
        /\ other # course_id
        /\ Lookup(course_to_index, other) = Lookup(course_to_index, course_id)

(* C22 as stated: for every course_id of the index table, resolving it to   *)
(* its course_index and mapping the index back returns the course_id, also  *)
(* when several course_ids map to the same course_index.                    *)
C22_RoundTripOfEveryTableId ==
    ResolvesTableId =>
        /\ result.course_index = Lookup(course_to_index, call[2])
        /\ result.course_id = call[2]

(* C22 amended: for every course_id of the index table, resolving it and    *)
(* mapping the index back returns the course_id when no other course_id of  *)
(* the table maps to the same course_index; when several do, it returns the *)
(* first of them in the order of the table.                                 *)
C22_RoundTripOfUnsharedTableId ==
    ResolvesTableId =>
        /\ result.course_index = Lookup(course_to_index, call[2])
        /\ ~SharesIndex(call[2]) => result.course_id = call[2]
        /\ \E p \in DOMAIN course_to_index :
              /\ course_to_index[p][1] = result.course_id
              /\ course_to_index[p][2] = result.course_index
              /\ \A q \in 1..(p - 1) :
                    course_to_index[q][2] # result.course_index

(* C22 witness: a table of two ids for two different courses; the id 7 is   *)
(* resolved and mapped back to 7                                            *)
C22_Witness ==
    /\ ResolvesTableId
    /\ Len(course_to_index) = 2
    /\ ~SharesIndex(call[2])
    /\ call[2] = 7
    /\ result.course_id = 7


(* C26: for every course entry returned by filter_courses,                  *)
(* search_courses_by_category or find_healthy_courses, passing the entry's  *)
(* course_id to calculate_health_score (item_type course),                  *)
(* summarize_recipe, swap_for_healthier or recommend_similar_meals          *)
(* addresses that same course: the operation reads the recipe of the        *)
(* entry's course_index, finds it and reports the entry's fsa score.        *)
C26_CourseIdAddressesSameCourse ==
    Op = "follow_up" =>
        /\ call[4] = call[3].course_index
        /\ ~HasError
        /\ call[2] = "calculate_health_score" =>
              SameNumber(result.score, Frac(call[3].fsa_score, 1))
        /\ call[2] = "summarize_recipe" =>
              result.scores.fsa = call[3].fsa_score
        /\ call[2] = "swap_for_healthier" =>
              result.original_course.fsa_score = call[3].fsa_score

----------------------------------------------------------------------------
(* The frame of the operations, over the dispatch specification: the        *)
(* operations of MealPlanningTools, the registry and the simple variant     *)
(* build their results in local lists and copies and assign to no table     *)

(* C23: after any sequence of query, aggregation and dispatch operations,   *)
(* with any arguments and also when an operation ends in an error result,   *)
(* the category, score, meal-course, id-index and interaction tables and    *)
(* the recipe index are what they were right after construction: no step    *)
(* changes any of them.                                                     *)
C23_OperationsLeaveTablesUnchanged ==
    [][/\ course_categories' = course_categories
       /\ course_fsa_scores' = course_fsa_scores
       /\ course_who_scores' = course_who_scores
       /\ meal_course_mapping' = meal_course_mapping
       /\ course_to_index' = course_to_index
       /\ user_course_interactions' = user_course_interactions
       /\ user_meal_interactions' = user_meal_interactions
       /\ recipes_db' = recipes_db]_vars

(* C23 witness: a dispatch that ended in an error result on a database with *)
(* courses, a meal, an index entry and an interaction                       *)
C23_Witness ==
    /\ Op = "execute_tool"
    /\ HasError
    /\ recipes_db # <<>>
    /\ meal_course_mapping # <<>>
    /\ course_to_index # <<>>
    /\ user_course_interactions # <<>>
    /\ recipes_db = _build_real_recipe_database(course_categories,
                        course_fsa_scores, course_who_scores,
                        meal_course_mapping, course_to_index)

----------------------------------------------------------------------------
(* The simple-variant specification: 3 * MaxLimit + 1 courses, one more     *)
(* than the database method is asked for with the largest limit, each an    *)
(* appetizer or a main course with fsa score 3 or 5, and                    *)
(* filter_healthy_courses called with the bounds 4 and 5, with and without  *)
(* a category, and limits up to MaxLimit.                                   *)

SimpleCourseCount == 3 * MaxLimit + 1
SimpleCategoryRows ==
    {[i \in 1..SimpleCourseCount |-> <<i - 1, f[i]>>] :
        f \in [1..SimpleCourseCount -> DataCategories]}

InitSimple ==
    /\ course_categories \in SimpleCategoryRows
    /\ course_fsa_scores \in [1..SimpleCourseCount -> {3, 5}]
    /\ course_who_scores = <<>>
    /\ meal_course_mapping = <<>>
    /\ course_to_index = <<>>
    /\ user_course_interactions = <<>>
    /\ user_meal_interactions = _load_user_meal_interactions(
                                    <<MissingFile, MissingFile, MissingFile>>)
    /\ Constructed

SimpleFilterHealthyCourses ==
    \E max_fsa_score \in {4, 5},
       category \in {None, Some("appetizer"), Some("main")},
       limit \in 0..MaxLimit :
        \E r \in Simple_filter_tool(max_fsa_score, category, limit) :
            Returns(<<"filter_healthy_courses", max_fsa_score, category,
                      limit>>, r)

NextSimple ==
    \/ TakeResult
    \/ SimpleFilterHealthyCourses

SpecSimple == InitSimple /\ [][NextSimple]_vars

(* the fsa score of a course of the simple variant, and the courses the     *)
(* arguments of the call ask for                                            *)
SimpleFsa(course_id) ==
    IF course_id + 1 \in DOMAIN course_fsa_scores
    THEN course_fsa_scores[course_id + 1] ELSE 10
SimpleQualifying ==
    {course_id \in Keys(course_categories) :
        /\ SimpleFsa(course_id) <= call[2]
        /\ \/ IsNone(call[3])
           \/ Lookup(course_categories, course_id) = CategoryNumber(Val(call[3]))}

(* C24: in the simple variant filter_healthy_courses(max_fsa_score,         *)
(* category, limit=K) returns the K courses of lowest fsa score among all   *)
(* the courses with fsa <= max_fsa_score (and of the category, when one is  *)
(* given), or all of them when there are fewer than K, sorted ascending by  *)
(* fsa: the truncation to the limit happens after the sort.                 *)
C24_SimpleFilterTruncatesAfterSort ==
    Op = "filter_healthy_courses" =>
        LET returned == [i \in DOMAIN result.results |-> result.results[i].id]
        IN  /\ Range(returned) \subseteq SimpleQualifying
            /\ \A i, j \in DOMAIN returned : i # j => returned[i] # returned[j]
            /\ Len(returned) = Min(call[4], Cardinality(SimpleQualifying))
            /\ \A i, j \in DOMAIN returned :
                  i < j => SimpleFsa(returned[i]) <= SimpleFsa(returned[j])
            /\ \A course_id \in SimpleQualifying \ Range(returned) :
                  \A i \in DOMAIN returned :
                      SimpleFsa(returned[i]) <= SimpleFsa(course_id)

(* C25: whenever the goal of generate_meal_plan supplies                    *)
(* max_avg_health_score, 0 included, every course of the plan has an fsa    *)
(* score <= the supplied value and so has the plan's average fsa score.     *)
C25_PlanUnderEverySuppliedMaximum ==
    (/\ Op = "generate_meal_plan"
     /\ ~IsNone(PlanGoal.max_avg_health_score)) =>
        LET supplied == Val(PlanGoal.max_avg_health_score)
        IN  /\ \A name \in Keys(result.meal_plan) :
                  PlanEntry(name).fsa_score <= supplied
            /\ result.average_fsa_score.n
                  <= supplied * result.average_fsa_score.d

(* C30: get_user_history and get_meal_composition rate a user or a meal     *)
(* "excellent" only when at least one of its courses is in the recipe index *)
(* and the mean fsa score of those courses is <= 4.                         *)
C30_ExcellentNeedsAnIndexedCourse ==
    (/\ RendersRating
     /\ call[2] \in {"get_user_history", "get_meal_composition"}
     /\ RenderedRating = "excellent") =>
        IF call[2] = "get_meal_composition"
        THEN /\ StoredIndexed(call[3].meal_id) # <<>>
             /\ Band(MeanFsa(call[3].meal_id)) = "excellent"
        ELSE /\ \E i \in CoursePairsOf(call[3].user_id) :
                    Indexed(user_course_interactions[i][2])
             /\ Band(UserMeanFsa(call[3].user_id)) = "excellent"

----------------------------------------------------------------------------
(* The chatbots: MealPlanningChatbot of src/agent.py ("agent") and of       *)
(* src/src/core/chatbot.py ("chatbot"), SimpleMealPlannerBot of             *)
(* src/src/main.py ("main").  A string is the sequence of its words, an     *)
(* optional content is None or Some(string).  The LLM is the environment: a *)
(* chat-completion request raises or answers with a message of optional    *)
(* content and a list of tool calls; a tool call has an id, a function name *)
(* and an arguments string, which is a JSON object, another JSON value or   *)
(* not JSON at all.                                                         *)

Bots == {"agent", "chatbot", "main"}

SystemMessage == [role |-> "system", content |-> Some(<<"SYSTEM_PROMPT">>)]
UserMessage(user_message) == [role |-> "user", content |-> Some(user_message)]
AssistantMessage(content) == [role |-> "assistant", content |-> content]
ToolCallsMessage(response_message) ==
    [role |-> "assistant", content |-> response_message.content,
     tool_calls |-> response_message.tool_calls]
ToolMessage(tool_call, result_str) ==
    [role |-> "tool", tool_call_id |-> tool_call.id,
     content |-> Some(result_str)]

(* json.loads(tool_call.function.arguments) *)
json_loads(arguments) ==
    IF arguments[1] = "invalid" THEN Raise("JSONDecodeError", arguments)
    ELSE [value |-> arguments]

(* the body of the try of one tool call and its except clause: the strings  *)
(* result_str can be                                                        *)
tool_result_strs(b, function_name, function_args) ==
    LET is_object == function_args[1] = "object"
        kwargs == function_args[2]
        dumps(r) == IF "raise" \in DOMAIN r
                    THEN IF b = "main" THEN <<"Error:", r.raise[1]>>
                         ELSE <<"Error executing", function_name, r.raise[1]>>
                    ELSE <<"json", r>>
    IN  CASE b = "agent" ->
               IF function_name \notin ToolNames
               THEN {<<"Error: Unknown function", function_name>>}
               ELSE IF is_object /\ WellFormed(function_name, kwargs)
               THEN {dumps(MethodOf(function_name, kwargs))}
               ELSE {dumps(Raise("TypeError", function_name))}
          [] b = "chatbot" ->
               IF is_object
               THEN {dumps(ToolRegistry_execute_tool(function_name, kwargs))}
               ELSE {dumps(Raise("TypeError", function_name))}
          [] b = "main" ->
               IF is_object
               THEN {dumps(r) : r \in Simple_execute_tool(function_name, kwargs)}
               ELSE {dumps(Raise("TypeError", function_name))}

(* the loop over response_message.tool_calls: the histories it can leave,   *)
(* raised when json.loads raised and the loop was left                      *)
RECURSIVE execute_tool_calls(_, _, _)
execute_tool_calls(b, tool_calls, history) ==
    IF tool_calls = <<>> THEN {[history |-> history, raised |-> FALSE]}
    ELSE LET tool_call == Head(tool_calls)
             function_args == json_loads(tool_call.arguments)
         IN  IF "raise" \in DOMAIN function_args
             THEN {[history |-> history, raised |-> TRUE]}
             ELSE UNION {execute_tool_calls(b, Tail(tool_calls),
                             Append(history, ToolMessage(tool_call, s))) :
                         s \in tool_result_strs(b, tool_call.name,
                                                function_args.value)}

(* "function" in str(content) or "tool" in str(content) *)
looks_like_tool_call(content) ==
    \E i \in DOMAIN content : content[i] \in {"function", "tool"}

(* _handle_function_calls, _handle_tool_calls of main.py: what the turn can *)
(* leave, raised when an exception leaves the method                        *)
_handle_function_calls(b, history, sent, response_message, final_response) ==
    {IF done.raised THEN [history |-> done.history, requests |-> sent,
                          raised |-> TRUE]
     ELSE LET final_content ==
                  IF "raise" \in DOMAIN final_response
                  THEN Some(IF b = "main" THEN <<"Error getting response:">>
                            ELSE <<"Error getting final response:">>)
                  ELSE final_response.content
          IN  [history |-> Append(done.history, AssistantMessage(final_content)),
               requests |-> Append(sent, done.history),
               raised |-> FALSE, returned |-> final_content] :
     done \in execute_tool_calls(b, response_message.tool_calls,
                  Append(history, ToolCallsMessage(response_message)))}

(* _get_llm_response: response is what the first request does, and          *)
(* final_response what the request after the tool results does              *)
_get_llm_response(b, history, response, final_response) ==
    LET messages == IF \E i \in DOMAIN history : history[i].role = "system"
                    THEN history ELSE <<SystemMessage>> \o history
        sent == <<messages>>
        error_msg == Some(IF b = "main" THEN <<"Sorry, error occurred:">>
                          ELSE <<"Sorry, I encountered an error:">>)
        caught(h) == [history |-> Append(h, AssistantMessage(error_msg)),
                      requests |-> sent, returned |-> error_msg]
    IN  IF "raise" \in DOMAIN response THEN {caught(history)}
        ELSE IF response.tool_calls # <<>>
        THEN {IF out.raised THEN caught(out.history)
              ELSE [history |-> out.history, requests |-> out.requests,
                    returned |-> out.returned] :
              out \in _handle_function_calls(b, history, sent, response,
                                             final_response)}
        ELSE LET content ==
                     IF /\ b = "main"
                        /\ ~IsNone(response.content)
                        /\ looks_like_tool_call(Val(response.content))
                     THEN Some(<<"ERROR: LLM returned malformed tool call.">>)
                     ELSE response.content
             IN  {[history |-> Append(history, AssistantMessage(content)),
                   requests |-> sent, returned |-> content]}

(* chat(user_message) *)
chat(b, history, user_message, response, final_response) ==
    _get_llm_response(b, Append(history, UserMessage(user_message)),
                      response, final_response)

(* The chat specification: one appetizer-free dataset with a main course in *)
(* one meal, a chatbot of one of the three kinds, up to MaxTurns turns per  *)
(* conversation and up to MaxCalls tool calls per response.                 *)

UserMessages == {<<"plan", "a", "meal">>}
Contents == {None, Some(<<"here", "is", "a", "plan">>),
             Some(<<"call", "the", "tool">>)}
APIError == Raise("APIError", <<>>)

(* the function names and arguments strings the LLM answers with: a         *)
(* well-formed call, arguments that are not JSON, arguments that are a JSON *)
(* array, and a name that is no tool                                        *)
ToolCallChoices(b) ==
    LET known == IF b = "main" THEN "filter_healthy_courses"
                 ELSE "get_meal_composition"
        kwargs == IF b = "main" THEN NoKwargs ELSE [meal_id |-> 1]
    IN  {<<known, <<"object", kwargs>>>>, <<known, <<"invalid">>>>,
         <<known, <<"array">>>>, <<"get_recipe", <<"object", NoKwargs>>>>}
ToolCallLists(b) ==
    UNION {{[i \in 1..n |-> [id |-> <<"call", i>>, name |-> f[i][1],
                             arguments |-> f[i][2]]] :
                f \in [1..n -> ToolCallChoices(b)]} : n \in 1..MaxCalls}
Responses(b) ==
    {APIError}
      \cup {[content |-> c, tool_calls |-> <<>>] : c \in Contents}
      \cup {[content |-> None, tool_calls |-> t] : t \in ToolCallLists(b)}
FinalResponses == {APIError} \cup {[content |-> c] : c \in Contents}

InitChat ==
    /\ course_categories = << <<0, 1>> >>
    /\ course_fsa_scores = <<4>>
    /\ course_who_scores = <<>>
    /\ meal_course_mapping = << <<1, <<0>>>> >>
    /\ course_to_index = <<>>
    /\ user_course_interactions = <<>>
    /\ user_meal_interactions = _load_user_meal_interactions(
                                    <<MissingFile, MissingFile, MissingFile>>)
    /\ Constructed

(* __init__ of a chatbot *)
NewChatbot ==
    /\ pc = "ready"
    /\ call = Idle
    /\ bot = "none"
    /\ bot' \in Bots
    /\ conversation_history' = <<>>
    /\ UNCHANGED <<tables, pc, files, call, result, requests>>

Turns == Cardinality({i \in DOMAIN conversation_history :
                         conversation_history[i].role = "user"})

Chat ==
    /\ pc = "ready"
    /\ call = Idle
    /\ bot \in Bots
    /\ Turns < MaxTurns
    /\ \E user_message \in UserMessages, response \in Responses(bot) :
         \E final_response \in
                IF "tool_calls" \in DOMAIN response /\ response.tool_calls # <<>>
                THEN FinalResponses ELSE {APIError} :
           \E out \in chat(bot, conversation_history, user_message,
                           response, final_response) :
              /\ call' = <<"chat", user_message, response, final_response>>
              /\ result' = [returned |-> out.returned]
              /\ conversation_history' = out.history
              /\ requests' = out.requests
    /\ UNCHANGED <<tables, pc, files, bot>>

(* reset_conversation of the two MealPlanningChatbot classes *)
ResetConversation ==
    /\ pc = "ready"
    /\ call = Idle
    /\ bot \in {"agent", "chatbot"}
    /\ conversation_history # <<>>
    /\ conversation_history' = <<>>
    /\ UNCHANGED <<tables, pc, files, call, result, bot, requests>>

NextChat ==
    \/ TakeResult
    \/ NewChatbot
    \/ Chat
    \/ ResetConversation

SpecChat == InitChat /\ [][NextChat]_vars

(* the messages from position i on begin with the tool messages of the      *)
(* tool calls, one per call, in call order                                  *)
AnsweredAt(i, tool_calls) ==
    /\ i + Len(tool_calls) - 1 <= Len(conversation_history)
    /\ \A k \in DOMAIN tool_calls :
          /\ conversation_history[i + k - 1].role = "tool"
          /\ conversation_history[i + k - 1].tool_call_id = tool_calls[k].id
    /\ i + Len(tool_calls) \in DOMAIN conversation_history =>
          conversation_history[i + Len(tool_calls)].role # "tool"

(* C27: in the conversation history every assistant message with tool calls *)
(* is immediately followed by exactly one tool message per tool call, in    *)
(* call order and with the matching tool_call_id, before any other message, *)
(* also when the arguments of a tool call are not valid JSON or a tool      *)
(* fails.                                                                   *)
C27_ToolCallsAreAnswered ==
    \A i \in DOMAIN conversation_history :
        "tool_calls" \in DOMAIN conversation_history[i] =>
            AnsweredAt(i + 1, conversation_history[i].tool_calls)

(* the same for the tool calls whose arguments are all JSON: holds *)
JsonToolCallsAreAnswered ==
    \A i \in DOMAIN conversation_history :
        ("tool_calls" \in DOMAIN conversation_history[i]
           /\ \A k \in DOMAIN conversation_history[i].tool_calls :
                 conversation_history[i].tool_calls[k].arguments[1] # "invalid")
        => AnsweredAt(i + 1, conversation_history[i].tool_calls)

(* the turn appended the user message, and the history ends with an         *)
(* assistant message whose content is what chat returned: holds             *)
LastUser ==
    CHOOSE i \in DOMAIN conversation_history :
        /\ conversation_history[i].role = "user"
        /\ \A j \in DOMAIN conversation_history :
              conversation_history[j].role = "user" => j <= i
ChatEndsWithReturned ==
    Op = "chat" =>
        /\ "returned" \in DOMAIN result
        /\ conversation_history[LastUser] = UserMessage(call[2])
        /\ LastUser < Len(conversation_history)
        /\ conversation_history[Len(conversation_history)]
              = AssistantMessage(result.returned)

(* C28: every chat(user_message) returns a string without raising, whatever *)
(* the LLM call, the argument parsing or a tool does; on return the history *)
(* contains the user message appended by the call and ends with an          *)
(* assistant message whose content is the returned string.                  *)
C28_ChatReturnsLastAssistantString ==
    /\ ChatEndsWithReturned
    /\ Op = "chat" => ~IsNone(result.returned)

(* the first request of a turn begins with the system prompt: holds *)
FirstRequestHasSystemPrompt ==
    Op = "chat" => /\ requests # <<>>
                   /\ requests[1][1] = SystemMessage

(* C29: every chat-completion request of a turn, the first one and the one  *)
(* sent after the tool results, has the system prompt as its first message. *)
C29_EveryRequestHasSystemPrompt ==
    Op = "chat" =>
        \A r \in DOMAIN requests :
            /\ requests[r] # <<>>
            /\ requests[r][1].role = "system"

====
